---- MODULE Spec2Model ----
(***************************************************************************)
(* Production Flow Consistency Engine of the ERP/MES backend.              *)
(*                                                                         *)
(* One part of one organisation, its stage-status rows, its production     *)
(* facts and its movements.  Every HTTP handler is one atomic action: the  *)
(* handler's guards, its writes, the trailing recompute_part_state and the *)
(* commit.  A handler that raises leaves the database as it was (the       *)
(* session is rolled back).  Queries issued by a handler see the           *)
(* handler's own pending writes (SQLAlchemy's Session flushes before each  *)
(* query), so guards that run after a setattr read the tentative row.      *)
(*                                                                         *)
(* Timestamps are values of a logical clock `now` that advances with every *)
(* request served; SQL now() inside a handler is the current value.        *)
(***************************************************************************)
EXTENDS Integers, FiniteSets, Sequences, TLC

(* ---------------------------------------------------------------- bounds *)
\* Largest quantity a request carries (qty_good, qty_scrap, qty_sent, ...).
MaxQty == 1
\* Largest planned quantity of the part.
MaxPlan == 2
\* The clock's last value: a behaviour serves MaxClock - 1 requests.
MaxClock == 4

(* ------------------------------------------------------------- constants *)
\* None for integer-valued columns (timestamps, quantities, operator ids).
Nil == 0 - 1
\* None for a stage link.
NoStage == "none"
\* The id of a stage-status row that belongs to another part of the organisation.
ForeignStage == "foreign"

PROGRESS_STAGES == {"machining", "fitting", "heat_treatment", "galvanic", "grinding", "qc"}
INTERNAL_FACT_STAGES == {"machining", "fitting", "qc"}
EXTERNAL_MOVEMENT_STAGES == {"heat_treatment", "galvanic", "grinding"}
RECEIVED_MOVEMENT_STATUSES == {"received", "completed"}
FACT_ENABLED_STAGES == {"machining", "fitting", "qc"}
ACTIVE_MOVEMENT_STATUSES == {"sent", "in_transit"}
MovementStatuses == {"pending", "sent", "in_transit", "received", "returned", "cancelled", "completed"}

DEPRECATED_STAGES == {"logistics", "grinding"}
COOP_REQUIRED_STAGES == {"qc"}
COOP_ALLOWED_STAGES == COOP_REQUIRED_STAGES \cup {"galvanic", "heat_treatment"}
SHOP_REQUIRED_STAGES == {"machining", "fitting", "qc"}
SHOP_ALLOWED_STAGES == SHOP_REQUIRED_STAGES \cup {"galvanic", "heat_treatment"}
\* Every stage name a stage-status row or a fact may carry.
StageNames == PROGRESS_STAGES \cup {"logistics"}

(* --------------------------------------------------------------- helpers *)
Range(seq) == {seq[i] : i \in DOMAIN seq}

SetMin(S) == CHOOSE x \in S : \A y \in S : x <= y

SetMax(S) == CHOOSE x \in S : \A y \in S : x >= y

Max2(a, b) == IF a >= b THEN a ELSE b

RECURSIVE Sum(_, _)
Sum(f, S) == IF S = {} THEN 0
             ELSE LET x == CHOOSE y \in S : TRUE IN f[x] + Sum(f, S \ {x})

\* Python's `a or b` on an optional timestamp.
OrElse(a, b) == IF a # Nil THEN a ELSE b

(* ------------------------------------------------------------ part_state *)
StageTotals(good, scrap, facts_count, first_at, last_at) ==
    [present |-> TRUE, good |-> good, scrap |-> scrap, facts_count |-> facts_count,
     first_at |-> first_at, last_at |-> last_at]

\* totals.get(stage, StageTotals()): the entry of a stage that has none.
NoTotals == [present |-> FALSE, good |-> 0, scrap |-> 0, facts_count |-> 0,
             first_at |-> Nil, last_at |-> Nil]

processed(t) == t.good + t.scrap

\* Prerequisites in which every finishing stage hangs on fitting alone.
inhouse_prerequisites_unchained(required_stages, stage) ==
    CASE stage = "fitting" ->
           IF "machining" \in required_stages THEN <<"machining">> ELSE <<>>
      [] stage \in {"heat_treatment", "galvanic", "grinding"} ->
           IF "fitting" \in required_stages THEN <<"fitting">> ELSE <<>>
      [] stage = "qc" ->
           (IF "fitting" \in required_stages THEN <<"fitting">> ELSE <<>>)
           \o SelectSeq(<<"heat_treatment", "galvanic", "grinding">>,
                        LAMBDA s : s \in required_stages)
      [] OTHER -> <<>>

inhouse_prerequisites(required_stages, stage) ==
    CASE stage = "fitting" ->
           IF "machining" \in required_stages THEN <<"machining">> ELSE <<>>
      [] stage = "heat_treatment" ->
           IF "fitting" \in required_stages THEN <<"fitting">> ELSE <<>>
      [] stage = "galvanic" ->
           IF "heat_treatment" \in required_stages THEN <<"heat_treatment">>
           ELSE IF "fitting" \in required_stages THEN <<"fitting">> ELSE <<>>
      [] stage = "grinding" ->
           IF "galvanic" \in required_stages THEN <<"galvanic">>
           ELSE IF "heat_treatment" \in required_stages THEN <<"heat_treatment">>
           ELSE IF "fitting" \in required_stages THEN <<"fitting">> ELSE <<>>
      [] stage = "qc" ->
           (IF "fitting" \in required_stages THEN <<"fitting">> ELSE <<>>)
           \o SelectSeq(<<"heat_treatment", "galvanic", "grinding">>,
                        LAMBDA s : s \in required_stages)
      [] OTHER -> <<>>

\* Prerequisites of a cooperation part in which heat_treatment waits for qc.
cooperation_prerequisites_looped(required_stages, stage) ==
    CASE stage = "heat_treatment" ->
           IF "qc" \in required_stages THEN <<"qc">> ELSE <<>>
      [] stage = "galvanic" ->
           IF "heat_treatment" \in required_stages THEN <<"heat_treatment">> ELSE <<>>
      [] stage = "grinding" ->
           IF "galvanic" \in required_stages THEN <<"galvanic">>
           ELSE IF "heat_treatment" \in required_stages THEN <<"heat_treatment">>
           ELSE <<>>
      [] stage = "qc" ->
           SelectSeq(<<"heat_treatment", "galvanic", "grinding">>,
                     LAMBDA s : s \in required_stages)
      [] OTHER -> <<>>

cooperation_prerequisites(required_stages, stage) ==
    CASE stage = "heat_treatment" -> <<>>
      [] stage = "galvanic" ->
           IF "heat_treatment" \in required_stages THEN <<"heat_treatment">> ELSE <<>>
      [] stage = "grinding" ->
           IF "galvanic" \in required_stages THEN <<"galvanic">>
           ELSE IF "heat_treatment" \in required_stages THEN <<"heat_treatment">>
           ELSE <<>>
      [] stage = "qc" ->
           SelectSeq(<<"heat_treatment", "galvanic", "grinding">>,
                     LAMBDA s : s \in required_stages)
      [] OTHER -> <<>>

stage_prerequisites(p, stage) ==
    IF p.is_cooperation
    THEN cooperation_prerequisites(p.required_stages, stage)
    ELSE inhouse_prerequisites(p.required_stages, stage)

\* coalesce(qty_received, qty_sent, quantity, 0)
_movement_qty_from_row(qty_received, qty_sent, quantity) ==
    IF qty_received # Nil THEN qty_received
    ELSE IF qty_sent # Nil THEN qty_sent
    ELSE IF quantity # Nil THEN quantity
    ELSE 0

movement_qty(m) == _movement_qty_from_row(m.qty_received, m.qty_sent, m.quantity)

\* coalesce(received_at, updated_at, sent_at, created_at) of a movement row.  The
\* rows the aggregator reads are in status received, where received_at is set, so
\* the bookkeeping column updated_at is never the one chosen and is not kept.
movement_event_at(m) ==
    IF m.received_at # Nil THEN m.received_at
    ELSE IF m.sent_at # Nil THEN m.sent_at
    ELSE m.created_at

qc_status_of(p) ==
    IF p.cooperation_qc_status = "null" THEN "pending" ELSE p.cooperation_qc_status

fact_totals(fs, stage) ==
    LET rows == {f \in fs : f.stage = stage} IN
    StageTotals(Sum([f \in rows |-> f.qty_good], rows),
                Sum([f \in rows |-> f.qty_scrap], rows),
                Cardinality(rows),
                SetMin({f.created_at : f \in rows}),
                SetMax({f.created_at : f \in rows}))

\* Movements of a stage counted whatever their status.
stage_movement_rows_any_status(ms, ss, stage) ==
    {m \in ms : /\ m.stage_id # NoStage
                /\ m.stage_id \in DOMAIN ss
                /\ m.stage_id = stage
                /\ stage \in EXTERNAL_MOVEMENT_STAGES}

\* Movements joined to the part's own stage-status rows of an external stage.
stage_movement_rows(ms, ss, stage) ==
    {m \in ms : /\ m.stage_id # NoStage
                /\ m.status \in RECEIVED_MOVEMENT_STATUSES
                /\ m.stage_id \in DOMAIN ss
                /\ m.stage_id = stage
                /\ stage \in EXTERNAL_MOVEMENT_STAGES}

movement_totals(ms, ss, stage) ==
    LET rows == stage_movement_rows(ms, ss, stage) IN
    StageTotals(Sum([m \in rows |-> movement_qty(m)], rows),
                0,
                Cardinality(rows),
                SetMin({movement_event_at(m) : m \in rows}),
                SetMax({movement_event_at(m) : m \in rows}))

compute_stage_totals(p, ss, fs, ms) ==
    [stage \in StageNames |->
        IF p.is_cooperation /\ stage = "qc" /\ qc_status_of(p) = "accepted"
        THEN StageTotals(p.qty_plan, 0, 1,
                         p.cooperation_qc_checked_at, p.cooperation_qc_checked_at)
        ELSE IF p.is_cooperation /\ stage = "qc" /\ qc_status_of(p) = "rejected"
        THEN StageTotals(0, 0, 1,
                         p.cooperation_qc_checked_at, p.cooperation_qc_checked_at)
        ELSE IF stage_movement_rows(ms, ss, stage) # {}
        THEN movement_totals(ms, ss, stage)
        ELSE IF {f \in fs : f.stage = stage} # {}
        THEN fact_totals(fs, stage)
        ELSE IF p.is_cooperation /\ stage = "qc"
        THEN StageTotals(0, 0, 0, Nil, Nil)
        ELSE NoTotals]

\* min(totals.get(s, StageTotals()).good for s in prereq)
available_from(totals, prereq) == SetMin({totals[s].good : s \in Range(prereq)})

\* A validator that takes "no prerequisite" as "nothing available".
flow_violations_without_roots(p, totals) ==
    {stage \in p.required_stages :
        /\ stage \notin {"machining", "logistics"}
        /\ processed(totals[stage]) >
              IF stage_prerequisites(p, stage) = <<>> THEN 0
              ELSE available_from(totals, stage_prerequisites(p, stage))}

\* The stages on which validate_stage_flow can report a violation.
flow_violations(p, totals) ==
    {stage \in p.required_stages :
        /\ stage \notin {"machining", "logistics"}
        /\ stage_prerequisites(p, stage) # <<>>
        /\ processed(totals[stage]) > available_from(totals, stage_prerequisites(p, stage))}

\* TRUE when validate_stage_flow returns a violation message (not None).
validate_stage_flow(p, totals) == flow_violations(p, totals) # {}

\* The most recent fact of the stage that carries an operator (or Nil).
last_operator_id(fs, stage) ==
    LET rows == {f \in fs : f.stage = stage /\ f.operator_id # Nil} IN
    IF rows = {} THEN Nil
    ELSE (CHOOSE f \in rows : \A g \in rows : g.created_at <= f.created_at).operator_id

PendingRow == [status |-> "pending", started_at |-> Nil, completed_at |-> Nil, operator_id |-> Nil]

\* A QC branch that sets a row back to pending without clearing its columns.
recompute_cooperation_qc_uncleared(p, row, stage_total, t) ==
    LET has_stage_activity == stage_total.facts_count > 0 \/ processed(stage_total) > 0
        qc_status == qc_status_of(p)
        started == IF row.started_at = Nil THEN OrElse(stage_total.first_at, t)
                   ELSE row.started_at
    IN
    IF qc_status = "pending" /\ ~has_stage_activity THEN [row EXCEPT !.status = "pending"]
    ELSE IF qc_status = "accepted"
    THEN [status |-> "done", started_at |-> started,
          completed_at |-> OrElse(p.cooperation_qc_checked_at, OrElse(stage_total.last_at, t)),
          operator_id |-> Nil]
    ELSE IF qc_status = "rejected"
    THEN [status |-> "in_progress", started_at |-> started, completed_at |-> Nil,
          operator_id |-> Nil]
    ELSE IF stage_total.good >= p.qty_plan
    THEN [status |-> "done", started_at |-> started,
          completed_at |-> IF row.completed_at = Nil THEN OrElse(stage_total.last_at, t)
                           ELSE row.completed_at,
          operator_id |-> Nil]
    ELSE [status |-> "in_progress", started_at |-> started, completed_at |-> Nil,
          operator_id |-> Nil]

\* The branch of the loop for the QC row of a cooperation part.
recompute_cooperation_qc(p, row, stage_total, t) ==
    LET has_stage_activity == stage_total.facts_count > 0 \/ processed(stage_total) > 0
        qc_status == qc_status_of(p)
        started == IF row.started_at = Nil THEN OrElse(stage_total.first_at, t)
                   ELSE row.started_at
    IN
    IF qc_status = "pending" /\ ~has_stage_activity THEN PendingRow
    ELSE IF qc_status = "accepted"
    THEN [status |-> "done", started_at |-> started,
          completed_at |-> OrElse(p.cooperation_qc_checked_at, OrElse(stage_total.last_at, t)),
          operator_id |-> Nil]
    ELSE IF qc_status = "rejected"
    THEN [status |-> "in_progress", started_at |-> started, completed_at |-> Nil,
          operator_id |-> Nil]
    ELSE IF stage_total.good >= p.qty_plan
    THEN [status |-> "done", started_at |-> started,
          completed_at |-> IF row.completed_at = Nil THEN OrElse(stage_total.last_at, t)
                           ELSE row.completed_at,
          operator_id |-> Nil]
    ELSE [status |-> "in_progress", started_at |-> started, completed_at |-> Nil,
          operator_id |-> Nil]

\* A loop body that never takes a row out of done.
recompute_stage_status_sticky(p, stage, row, stage_total, fs, t) ==
    IF row.status = "done" THEN row
    ELSE IF stage_total.facts_count > 0 /\ stage_total.good >= p.qty_plan
    THEN [row EXCEPT !.status = "done"]
    ELSE IF stage_total.facts_count > 0 THEN [row EXCEPT !.status = "in_progress"]
    ELSE row

\* The body of the loop over the stage-status rows, for one row.
recompute_stage_status(p, stage, row, stage_total, fs, t) ==
    LET has_stage_activity == stage_total.facts_count > 0 \/ processed(stage_total) > 0
        started == IF row.started_at = Nil THEN OrElse(stage_total.first_at, t)
                   ELSE row.started_at
        looked_up == IF row.operator_id = Nil /\ stage \in INTERNAL_FACT_STAGES
                        /\ last_operator_id(fs, stage) # Nil
                     THEN last_operator_id(fs, stage)
                     ELSE row.operator_id
        operator == IF stage \in EXTERNAL_MOVEMENT_STAGES THEN Nil ELSE looked_up
    IN
    IF row.status = "skipped" THEN row
    ELSE IF stage = "qc" /\ p.is_cooperation
    THEN recompute_cooperation_qc(p, row, stage_total, t)
    ELSE IF ~has_stage_activity THEN PendingRow
    ELSE IF stage = "logistics"
    THEN [status |-> "in_progress", started_at |-> started, completed_at |-> Nil,
          operator_id |-> operator]
    ELSE IF stage_total.good >= p.qty_plan
    THEN [status |-> "done", started_at |-> started,
          completed_at |-> IF row.completed_at = Nil THEN OrElse(stage_total.last_at, t)
                           ELSE row.completed_at,
          operator_id |-> operator]
    ELSE [status |-> "in_progress", started_at |-> started, completed_at |-> Nil,
          operator_id |-> operator]

\* ready_qty that counts the skipped rows too.
ready_qty_with_skipped(ss, totals) ==
    LET progress_stages_present == {s \in DOMAIN ss : s \in PROGRESS_STAGES}
    IN IF progress_stages_present # {}
       THEN SetMin({totals[s].good : s \in progress_stages_present})
       ELSE 0

\* ready_qty taken from the furthest stage instead of the bottleneck.
ready_qty_furthest(ss, totals) ==
    LET progress_stages_present ==
            {s \in DOMAIN ss : ss[s].status # "skipped" /\ s \in PROGRESS_STAGES}
    IN IF progress_stages_present # {}
       THEN SetMax({totals[s].good : s \in progress_stages_present})
       ELSE 0

\* ready_qty: the bottleneck MIN over the non-skipped progress stages that have a row.
ready_qty(ss, totals) ==
    LET progress_stages_present ==
            {s \in DOMAIN ss : ss[s].status # "skipped" /\ s \in PROGRESS_STAGES}
    IN IF progress_stages_present # {}
       THEN SetMin({totals[s].good : s \in progress_stages_present})
       ELSE 0

\* A part status that never returns to not_started once the part has started.
overall_status_sticky(p, qty_done, ss, totals) ==
    LET facts_total == Sum([s \in StageNames |-> totals[s].facts_count], StageNames)
        has_started == \/ facts_total > 0
                       \/ \E s \in DOMAIN ss : ss[s].status \in {"in_progress", "done"}
                       \/ p.status \in {"in_progress", "done"}
    IN IF qty_done >= p.qty_plan THEN "done"
       ELSE IF has_started THEN "in_progress"
       ELSE "not_started"

\* Part.status as the tail of recompute_part_state derives it.
overall_status(p, qty_done, ss, totals) ==
    LET facts_total == Sum([s \in StageNames |-> totals[s].facts_count], StageNames)
        has_started == \/ facts_total > 0
                       \/ \E s \in DOMAIN ss : ss[s].status \in {"in_progress", "done"}
    IN IF qty_done >= p.qty_plan THEN "done"
       ELSE IF has_started THEN "in_progress"
       ELSE "not_started"

\* recompute_part_state(db, part=p, stage_totals=totals) at time t: the new part
\* and the new stage-status rows.
recompute_part_state(p, ss, fs, totals, t) ==
    LET new_ss == [s \in DOMAIN ss |-> recompute_stage_status(p, s, ss[s], totals[s], fs, t)]
        qty_done == Max2(0, ready_qty(new_ss, totals))
    IN [part |-> [p EXCEPT !.qty_done = qty_done,
                           !.status = overall_status(p, qty_done, new_ss, totals)],
        stage_statuses |-> new_ss]

(* -------------------------------------------------------- movement_rules *)
_TERMINAL_STATUSES == {"received", "returned", "cancelled", "completed"}

\* A transition table in which a received movement can still be returned.
_ALLOWED_TRANSITIONS_reopened ==
    [current \in MovementStatuses |->
        CASE current = "pending" -> {"sent", "cancelled"}
          [] current = "sent" -> {"in_transit", "received", "returned", "cancelled"}
          [] current = "in_transit" -> {"received", "returned", "cancelled"}
          [] current = "received" -> {"returned"}
          [] OTHER -> {}]

_ALLOWED_TRANSITIONS ==
    [current \in MovementStatuses |->
        CASE current = "pending" -> {"sent", "cancelled"}
          [] current = "sent" -> {"in_transit", "received", "returned", "cancelled"}
          [] current = "in_transit" -> {"received", "returned", "cancelled"}
          [] OTHER -> {}]

\* The text of the ValueError of validate_status_transition, word by word.
status_transition_message(current, nxt) ==
    <<"Invalid movement status transition:", current, "->", nxt>>

\* A transition table that allows every move.
validate_status_transition_any(current_status, next_status) == TRUE

\* validate_status_transition raises unless this holds; it then returns next_status.
validate_status_transition(current_status, next_status) ==
    next_status = current_status \/ next_status \in _ALLOWED_TRANSITIONS[current_status]

\* ensure_received_requires_sent raises unless this holds.
ensure_received_requires_sent(sent_at, next_status) ==
    ~(next_status = "received" /\ sent_at = Nil)

\* ensure_not_cancelled_to_received raises unless this holds.
ensure_not_cancelled_to_received(current_status, next_status) ==
    ~(current_status = "cancelled" /\ next_status # "cancelled")

\* A guard that lets every movement become active.
ensure_single_active_movement_off(existing_active_count, current_status, next_status, allow_parallel) ==
    TRUE

\* ensure_single_active_movement raises unless this holds.  current_status is
\* "pending" for a movement being created (normalize_movement_status(None)).
ensure_single_active_movement(existing_active_count, current_status, next_status, allow_parallel) ==
    \/ allow_parallel
    \/ ~(/\ next_status \in ACTIVE_MOVEMENT_STATUSES
         /\ current_status \notin ACTIVE_MOVEMENT_STATUSES
         /\ existing_active_count > 0)

\* A link check that accepts the rows of every part.
ensure_stage_link_matches_part_any(stage_id) == TRUE

\* ensure_stage_link_matches_part raises unless the row belongs to the movement's part.
ensure_stage_link_matches_part(stage_id) == stage_id # ForeignStage

\* A test that lets every movement count as a shipment.
has_real_shipment_semantics_any(status, sent_at) == TRUE

has_real_shipment_semantics(status, sent_at) ==
    IF status \in {"sent", "in_transit"} THEN sent_at # Nil
    ELSE status \in {"received", "returned", "cancelled"}

initial_movement_state(ts) == [status |-> "sent", sent_at |-> ts]

\* Timestamps that are stamped again on every request for their status.
apply_status_timestamps_restamped(next_status, sent_at, received_at, returned_at, cancelled_at, ts) ==
    [sent_at |-> IF next_status \in {"sent", "in_transit"} THEN ts ELSE sent_at,
     received_at |-> IF next_status = "received" THEN ts ELSE received_at,
     returned_at |-> IF next_status = "returned" THEN ts ELSE returned_at,
     cancelled_at |-> IF next_status = "cancelled" THEN ts ELSE cancelled_at]

\* Timestamps where pending counts as a shipment and stamps sent_at.
apply_status_timestamps_pending_stamped(next_status, sent_at, received_at, returned_at, cancelled_at, ts) ==
    [sent_at |-> IF sent_at = Nil /\ next_status \in {"pending", "sent", "in_transit"}
                 THEN ts ELSE sent_at,
     received_at |-> IF next_status = "received" /\ received_at = Nil THEN ts ELSE received_at,
     returned_at |-> IF next_status = "returned" /\ returned_at = Nil THEN ts ELSE returned_at,
     cancelled_at |-> IF next_status = "cancelled" /\ cancelled_at = Nil THEN ts ELSE cancelled_at]

\* apply_status_timestamps: the four timestamps after entering next_status at ts.
apply_status_timestamps(next_status, sent_at, received_at, returned_at, cancelled_at, ts) ==
    [sent_at |-> IF sent_at = Nil /\ next_status \in {"sent", "in_transit"} THEN ts ELSE sent_at,
     received_at |-> IF next_status = "received" /\ received_at = Nil THEN ts ELSE received_at,
     returned_at |-> IF next_status = "returned" /\ returned_at = Nil THEN ts ELSE returned_at,
     cancelled_at |-> IF next_status = "cancelled" /\ cancelled_at = Nil THEN ts ELSE cancelled_at]

(* ------------------------------------------------------ routers/movements *)
\* SUM(coalesce(qty_received, qty_sent, quantity, 0)) over the part-level
\* movements in a received status, leaving out exclude_movement_id (Nil: none).
_cooperation_received_qty(ms, exclude_movement_id) ==
    LET rows == {m \in ms : /\ m.stage_id = NoStage
                            /\ m.status \in RECEIVED_MOVEMENT_STATUSES
                            /\ m.id # exclude_movement_id}
    IN Sum([m \in rows |-> movement_qty(m)], rows)

\* to_shop: the target (to_holder or to_location) names the shop/production.
_is_cooperation_inbound(p, stage_id, movement_type, to_shop) ==
    IF ~p.is_cooperation THEN FALSE
    ELSE IF stage_id # NoStage THEN FALSE
    ELSE IF movement_type = "coop_in" THEN TRUE
    ELSE to_shop

\* A receive limit that accepts every quantity.
_ensure_cooperation_receive_limit_off(p, ms, incoming_qty, exclude_movement_id) == TRUE

\* _ensure_cooperation_receive_limit raises unless this holds.
_ensure_cooperation_receive_limit(p, ms, incoming_qty, exclude_movement_id) ==
    /\ incoming_qty # Nil
    /\ incoming_qty > 0
    /\ incoming_qty <= Max2(p.qty_plan - _cooperation_received_qty(ms, exclude_movement_id), 0)

\* What one movement row contributes to its stage's allocation.
row_allocation(m) ==
    IF m.status \in RECEIVED_MOVEMENT_STATUSES
    THEN _movement_qty_from_row(m.qty_received, m.qty_sent, m.quantity)
    ELSE IF m.status \in ACTIVE_MOVEMENT_STATUSES /\ m.sent_at # Nil
    THEN _movement_qty_from_row(Nil, m.qty_sent, m.quantity)
    ELSE 0

_stage_allocated_qty(ms, stage_id, exclude_movement_id) ==
    LET rows == {m \in ms : m.stage_id = stage_id}
        allocated == Sum([m \in rows |-> row_allocation(m)], rows)
        current == {m \in rows : m.id = exclude_movement_id}
        current_allocated == Sum([m \in current |-> row_allocation(m)], current)
    IN IF exclude_movement_id = Nil \/ current = {} THEN allocated
       ELSE Max2(allocated - current_allocated, 0)

_stage_source_qty(p, ss, fs, ms, stage) ==
    LET prerequisites == stage_prerequisites(p, stage) IN
    IF prerequisites # <<>>
    THEN available_from(compute_stage_totals(p, ss, fs, ms), prerequisites)
    ELSE IF p.is_cooperation /\ stage \in {"heat_treatment", "galvanic", "grinding"}
    THEN _cooperation_received_qty(ms, Nil)
    ELSE p.qty_plan

\* remaining_qty of _ensure_stage_movement_allowed.
stage_remaining_qty(p, ss, fs, ms, stage, exclude_movement_id) ==
    Max2(_stage_source_qty(p, ss, fs, ms, stage)
           - _stage_allocated_qty(ms, stage, exclude_movement_id), 0)

\* _ensure_stage_movement_allowed raises unless this holds.
_ensure_stage_movement_allowed(p, ss, fs, ms, stage, requested_qty, exclude_movement_id) ==
    /\ requested_qty > 0
    /\ requested_qty <= stage_remaining_qty(p, ss, fs, ms, stage, exclude_movement_id)

_count_active_movements(ms, exclude_movement_id) ==
    Cardinality({m \in ms : /\ m.status \in ACTIVE_MOVEMENT_STATUSES
                            /\ m.sent_at # Nil
                            /\ m.id # exclude_movement_id})

(* ------------------------------------------- routers/movements: the journey *)
\* The rows of GET /parts/{part_id}/journey are ordered by
\* coalesce(sent_at, created_at), latest first.
journey_order_key(m) == IF m.sent_at # Nil THEN m.sent_at ELSE m.created_at

\* next(m for m in movements if ...): the first row of the ordered list among
\* rows; rows with equal keys come in either order, so each may be the first.
first_in_journey_order(rows) ==
    {m \in rows : \A n \in rows : journey_order_key(m) >= journey_order_key(n)}

_movement_affects_location(m) == has_real_shipment_semantics(m.status, m.sent_at)

active_movement(ms) ==
    first_in_journey_order({m \in ms : m.status \in ACTIVE_MOVEMENT_STATUSES /\ m.sent_at # Nil})

location_movement(ms) == first_in_journey_order({m \in ms : _movement_affects_location(m)})

\* active_movement or location_movement: the rows the location may be read from.
whereabouts_movement(ms) ==
    IF active_movement(ms) # {} THEN active_movement(ms) ELSE location_movement(ms)

\* No location and no holder.
NoWhereabouts == [movement |-> Nil, taken_from |-> "none"]

\* The location and holder are kept as the movement they are read from and the
\* end of it: the target for received, sent, in_transit and pending, the origin
\* for returned and cancelled.
_derive_current_location_and_holder(m) ==
    [movement |-> m.id,
     taken_from |-> IF m.status \in {"returned", "cancelled"} THEN "from" ELSE "to"]

_apply_cooperation_partial_location(p, current, received_qty) ==
    IF ~p.is_cooperation THEN current
    ELSE IF p.qty_plan <= 0 THEN current
    ELSE IF 0 < received_qty /\ received_qty < p.qty_plan
    THEN [movement |-> Nil, taken_from |-> "cooperator_and_shop"]
    ELSE current

_apply_cooperation_location_fallback(p, current) ==
    IF ~p.is_cooperation THEN current
    ELSE IF current = NoWhereabouts THEN [movement |-> Nil, taken_from |-> "at_cooperator"]
    ELSE current

\* current_location and current_holder of get_part_journey: the set of values
\* the report may show for the part p with the movement rows ms.
current_whereabouts(p, ms) ==
    LET derived == IF whereabouts_movement(ms) = {} THEN {NoWhereabouts}
                   ELSE {_derive_current_location_and_holder(m) : m \in whereabouts_movement(ms)}
        cooperation_received_qty ==
            IF p.is_cooperation THEN _cooperation_received_qty(ms, Nil) ELSE 0
    IN {_apply_cooperation_location_fallback(p,
            _apply_cooperation_partial_location(p, d, cooperation_received_qty)) : d \in derived}

(* ---------------------------------------------------------------- database *)
\* The rows of one part: the part, its stage-status rows (a function from the
\* stage of the row), its facts and its movements.  A fact or a movement is
\* identified by the clock value of the request that created it.
Database(p, ss, fs, ms) == [part |-> p, stage_statuses |-> ss, facts |-> fs, movements |-> ms]

\* A handler's outcome: err = "" and the rows it committed, or the error it
\* raised and the rows of its session at the raise, which are never committed.
Committed(db) == [err |-> "", db |-> db]

Raised(err, db) == [err |-> err, db |-> db]

\* recompute_part_state(db, part=part) with the totals computed inside it.
recomputed(db, t) ==
    LET r == recompute_part_state(db.part, db.stage_statuses, db.facts,
                 compute_stage_totals(db.part, db.stage_statuses, db.facts, db.movements), t)
    IN [db EXCEPT !.part = r.part, !.stage_statuses = r.stage_statuses]

totals_of(db) == compute_stage_totals(db.part, db.stage_statuses, db.facts, db.movements)

(* ------------------------------------------------------------ routers/facts *)
\* The prerequisite stages of _ensure_stage_prerequisites that are required but
\* have no fact yet.
missing_prerequisite_facts(p, fs, stage) ==
    LET optional == {"galvanic", "heat_treatment", "grinding"} \cap p.required_stages
        required_for_stage ==
            IF p.is_cooperation
            THEN (IF stage = "qc" THEN optional ELSE {})
            ELSE CASE stage = "fitting" -> {"machining"}
                   [] stage \in {"galvanic", "heat_treatment", "grinding"} -> {"fitting"}
                   [] stage = "qc" -> {"fitting"} \cup optional
                   [] OTHER -> {}
    IN {s \in required_for_stage \cap p.required_stages : ~\E f \in fs : f.stage = s}

\* _ensure_stage_prerequisites raises unless this holds.
_ensure_stage_prerequisites(p, fs, stage) == missing_prerequisite_facts(p, fs, stage) = {}

\* _ensure_stage_supports_facts raises unless this holds.
_ensure_stage_supports_facts(stage) == stage \in FACT_ENABLED_STAGES

\* The quantity pre-check of create_stage_fact (raises when TRUE).
fact_exceeds_available(db, data) ==
    LET prereq == stage_prerequisites(db.part, data.stage)
        totals_before == totals_of(db)
    IN /\ data.stage # "machining"
       /\ prereq # <<>>
       /\ processed(totals_before[data.stage]) + data.qty_good + data.qty_scrap
            > available_from(totals_before, prereq)

\* POST /parts/{part_id}/facts by a user who is not an operator, for a part
\* whose machine is assigned, on a date and shift that has no fact yet.
create_stage_fact(db, data, t) ==
    LET fact == [id |-> t, stage |-> data.stage, qty_good |-> data.qty_good,
                 qty_scrap |-> data.qty_scrap, operator_id |-> data.operator_id,
                 created_at |-> t]
        after == [db EXCEPT !.facts = @ \cup {fact}]
    IN
    IF ~_ensure_stage_supports_facts(data.stage) THEN Raised("FACT_STAGE_WITHOUT_FACTS", db)
    ELSE IF data.stage \notin db.part.required_stages THEN Raised("FACT_STAGE_NOT_REQUIRED", db)
    ELSE IF ~_ensure_stage_prerequisites(db.part, db.facts, data.stage)
    THEN Raised("FACT_PREREQUISITE_MISSING", db)
    ELSE IF fact_exceeds_available(db, data) THEN Raised("FACT_EXCEEDS_AVAILABLE", db)
    ELSE IF data.stage = "machining" /\ data.operator_id = Nil
    THEN Raised("FACT_OPERATOR_REQUIRED", db)
    ELSE IF validate_stage_flow(after.part, totals_of(after))
    THEN Raised("FLOW_VIOLATION", after)
    ELSE Committed(recomputed(after, t))

\* PUT /facts/{fact_id}.
update_stage_fact(db, fact_id, data, t) ==
    LET fact == CHOOSE f \in db.facts : f.id = fact_id
        changed == [fact EXCEPT !.operator_id = IF fact.stage = "machining"
                                                THEN data.operator_id ELSE Nil,
                                !.qty_good = data.qty_good,
                                !.qty_scrap = data.qty_scrap]
        after == [db EXCEPT !.facts = (@ \ {fact}) \cup {changed}]
    IN
    IF ~\E f \in db.facts : f.id = fact_id THEN Raised("FACT_NOT_FOUND", db)
    ELSE IF ~_ensure_stage_supports_facts(fact.stage) THEN Raised("FACT_STAGE_WITHOUT_FACTS", db)
    ELSE IF fact.stage = "machining" /\ data.operator_id = Nil
    THEN Raised("FACT_OPERATOR_REQUIRED", db)
    ELSE IF validate_stage_flow(after.part, totals_of(after))
    THEN Raised("FLOW_VIOLATION", after)
    ELSE Committed(recomputed(after, t))

\* DELETE /facts/{fact_id}.
delete_stage_fact(db, fact_id, t) ==
    LET after == [db EXCEPT !.facts = {f \in @ : f.id # fact_id}] IN
    IF ~\E f \in db.facts : f.id = fact_id THEN Raised("FACT_NOT_FOUND", db)
    ELSE IF validate_stage_flow(after.part, totals_of(after))
    THEN Raised("FLOW_VIOLATION", after)
    ELSE Committed(recomputed(after, t))

(* ------------------------------------------------ use_cases/movements_use_cases *)
\* requested_stage_qty of the stage guard, from the status and the two quantities.
requested_stage_qty(status, qty_sent, qty_received) ==
    IF status = "received" /\ qty_received # Nil THEN qty_received ELSE qty_sent

\* A quantity check that accepts every pair of quantities.
qty_received_exceeds_sent_never(qty_sent, qty_received) == FALSE

\* The quantity check of both handlers (they raise when it is TRUE).
qty_received_exceeds_sent(qty_sent, qty_received) ==
    qty_sent # Nil /\ qty_received # Nil /\ qty_received > qty_sent

\* POST /parts/{part_id}/movements.
create_movement_use_case(db, data, t) ==
    LET part == db.part
        stage_linked == data.stage_id # NoStage
        status == data.status
        sent_at == IF status = "sent" THEN initial_movement_state(t).sent_at
                   ELSE IF status = "received" THEN t ELSE Nil
        received_at == IF status = "received" THEN sent_at ELSE Nil
        guarded == stage_linked /\ status \in {"sent", "received"}
        stage_qty == requested_stage_qty(status, data.qty_sent, data.qty_received)
        active_count == _count_active_movements(db.movements, Nil)
        resolved_qty_received ==
            IF data.qty_received # Nil THEN data.qty_received
            ELSE IF status = "received" THEN data.qty_sent ELSE Nil
        movement == [id |-> t, created_at |-> t, status |-> status,
                     sent_at |-> sent_at, received_at |-> received_at,
                     returned_at |-> Nil, cancelled_at |-> Nil,
                     qty_sent |-> data.qty_sent, qty_received |-> resolved_qty_received,
                     quantity |-> data.qty_sent, stage_id |-> data.stage_id,
                     type |-> data.type, to_shop |-> data.to_shop]
        after == [db EXCEPT !.movements = @ \cup {movement}]
    IN
    IF qty_received_exceeds_sent(data.qty_sent, data.qty_received)
    THEN Raised("MOVEMENT_INVALID_QUANTITY", db)
    ELSE IF stage_linked /\ ~ensure_stage_link_matches_part(data.stage_id)
    THEN Raised("MOVEMENT_STAGE_PART_MISMATCH", db)
    ELSE IF status \notin {"sent", "pending", "received"}
    THEN Raised("MOVEMENT_INVALID_INITIAL_STATUS", db)
    ELSE IF status = "received" /\ ~ensure_received_requires_sent(sent_at, "received")
    THEN Raised("MOVEMENT_INVALID_INITIAL_STATUS", db)
    ELSE IF guarded /\ stage_qty = Nil THEN Raised("MOVEMENT_STAGE_QTY_REQUIRED", db)
    ELSE IF guarded /\ ~_ensure_stage_movement_allowed(part, db.stage_statuses, db.facts,
                             db.movements, data.stage_id, stage_qty, Nil)
    THEN Raised("MOVEMENT_STAGE_CONSTRAINT_VIOLATION", db)
    ELSE IF ~ensure_single_active_movement(active_count, "pending", status, data.allow_parallel)
    THEN Raised("MOVEMENT_ACTIVE_CONFLICT", db)
    ELSE IF /\ status \in RECEIVED_MOVEMENT_STATUSES
            /\ _is_cooperation_inbound(part, data.stage_id, data.type, data.to_shop)
            /\ ~_ensure_cooperation_receive_limit(part, db.movements, resolved_qty_received, Nil)
    THEN Raised("MOVEMENT_COOPERATION_LIMIT_VIOLATION", db)
    ELSE Committed(recomputed(after, t))

\* An update that leaves qty_received of a movement entering received as it is.
movement_after_update_no_default(observed, payload, new_status, t) ==
    LET set == [observed EXCEPT
                   !.qty_sent = IF "qty_sent" \in payload.has THEN payload.qty_sent ELSE @,
                   !.quantity = IF "qty_sent" \in payload.has THEN payload.qty_sent ELSE @,
                   !.qty_received = IF "qty_received" \in payload.has
                                    THEN payload.qty_received ELSE @,
                   !.stage_id = IF "stage_id" \in payload.has THEN payload.stage_id ELSE @,
                   !.to_shop = IF "to_location" \in payload.has THEN payload.to_shop ELSE @]
        ts == apply_status_timestamps(new_status, set.sent_at, set.received_at,
                                      set.returned_at, set.cancelled_at, t)
    IN IF new_status = "" THEN set
       ELSE [set EXCEPT !.status = new_status,
                        !.sent_at = ts.sent_at,
                        !.received_at = ts.received_at,
                        !.returned_at = ts.returned_at,
                        !.cancelled_at = ts.cancelled_at]

\* The movement row after the setattr loop and the status block of
\* update_movement_use_case; observed is the row the request loaded and
\* new_status the validated transition target (Nil: the payload has no status).
movement_after_update(observed, payload, new_status, t) ==
    LET set == [observed EXCEPT
                   !.qty_sent = IF "qty_sent" \in payload.has THEN payload.qty_sent ELSE @,
                   !.quantity = IF "qty_sent" \in payload.has THEN payload.qty_sent ELSE @,
                   !.qty_received = IF "qty_received" \in payload.has
                                    THEN payload.qty_received ELSE @,
                   !.stage_id = IF "stage_id" \in payload.has THEN payload.stage_id ELSE @,
                   !.to_shop = IF "to_location" \in payload.has THEN payload.to_shop ELSE @]
        ts == apply_status_timestamps(new_status, set.sent_at, set.received_at,
                                      set.returned_at, set.cancelled_at, t)
    IN IF new_status = "" THEN set
       ELSE [set EXCEPT !.status = new_status,
                        !.sent_at = ts.sent_at,
                        !.received_at = ts.received_at,
                        !.returned_at = ts.returned_at,
                        !.cancelled_at = ts.cancelled_at,
                        !.qty_received =
                            IF new_status = "received" /\ set.qty_received = Nil
                            THEN set.qty_sent ELSE @]

\* Status guards that accept every request.
status_guard_error_none(db, observed, payload) == ""

\* The status guards of update_movement_use_case for the row the request observed:
\* "" when they pass, else the error raised.
status_guard_error(db, observed, payload) ==
    IF "status" \notin payload.has THEN ""
    ELSE IF \/ ~ensure_not_cancelled_to_received(observed.status, payload.status)
            \/ ~validate_status_transition(observed.status, payload.status)
            \/ ~ensure_received_requires_sent(observed.sent_at, payload.status)
            \/ ~ensure_single_active_movement(
                    _count_active_movements(db.movements, observed.id),
                    observed.status, payload.status, payload.allow_parallel)
    THEN "MOVEMENT_INVALID_STATUS_TRANSITION"
    ELSE ""

\* The stage row the guards of an update use: the payload's when it names one,
\* else the one the movement is linked to.
update_stage_status(observed, payload) ==
    IF "stage_id" \in payload.has /\ payload.stage_id # NoStage THEN payload.stage_id
    ELSE observed.stage_id

\* The row an UPDATE leaves: the columns the request changed on the row it
\* loaded, written over the row as it is in the database.
written_row(current, observed, movement) ==
    [c \in DOMAIN current |-> IF movement[c] # observed[c] THEN movement[c] ELSE current[c]]

\* PATCH /movements/{movement_id}: observed is the movement row as the request
\* loaded it, db the rows its later queries read.
update_movement_from(db, observed, payload, t) ==
    LET part == db.part
        next_qty_sent == IF "qty_sent" \in payload.has THEN payload.qty_sent
                         ELSE observed.qty_sent
        next_qty_received == IF "qty_received" \in payload.has THEN payload.qty_received
                             ELSE observed.qty_received
        stage_status == update_stage_status(observed, payload)
        new_status == IF "status" \in payload.has THEN payload.status ELSE ""
        movement == movement_after_update(observed, payload, new_status, t)
        current == CHOOSE m \in db.movements : m.id = observed.id
        \* the session flushes the pending row before the guards' queries
        flushed == [db EXCEPT !.movements = {m \in @ : m.id # observed.id}
                                              \cup {written_row(current, observed, movement)}]
        effective_status == movement.status
        guarded == /\ stage_status # NoStage
                   /\ payload.has \cap {"stage_id", "qty_sent", "qty_received", "status"} # {}
                   /\ effective_status \in {"sent", "in_transit", "received"}
        stage_qty == requested_stage_qty(effective_status, movement.qty_sent,
                                         movement.qty_received)
        incoming_qty == IF movement.qty_received # Nil THEN movement.qty_received
                        ELSE movement.qty_sent
    IN
    IF qty_received_exceeds_sent(next_qty_sent, next_qty_received)
    THEN Raised("MOVEMENT_INVALID_QUANTITY", db)
    ELSE IF "stage_id" \in payload.has /\ payload.stage_id # NoStage
            /\ ~ensure_stage_link_matches_part(payload.stage_id)
    THEN Raised("MOVEMENT_STAGE_PART_MISMATCH", db)
    ELSE IF status_guard_error(db, observed, payload) # ""
    THEN Raised(status_guard_error(db, observed, payload), db)
    ELSE IF guarded /\ stage_qty = Nil THEN Raised("MOVEMENT_STAGE_QTY_REQUIRED", flushed)
    ELSE IF guarded /\ ~_ensure_stage_movement_allowed(part, flushed.stage_statuses,
                             flushed.facts, flushed.movements, stage_status, stage_qty,
                             observed.id)
    THEN Raised("MOVEMENT_STAGE_CONSTRAINT_VIOLATION", flushed)
    ELSE IF /\ effective_status \in RECEIVED_MOVEMENT_STATUSES
            /\ _is_cooperation_inbound(part, movement.stage_id, movement.type, movement.to_shop)
            /\ payload.has \cap {"status", "qty_sent", "qty_received", "stage_id",
                                 "to_location"} # {}
            /\ ~_ensure_cooperation_receive_limit(part, flushed.movements, incoming_qty,
                                                  observed.id)
    THEN Raised("MOVEMENT_COOPERATION_LIMIT_VIOLATION", flushed)
    ELSE Committed(recomputed(flushed, t))

update_movement_use_case(db, movement_id, payload, t) ==
    IF ~\E m \in db.movements : m.id = movement_id THEN Raised("MOVEMENT_NOT_FOUND", db)
    ELSE update_movement_from(db, CHOOSE m \in db.movements : m.id = movement_id, payload, t)

(* ------------------------------------------------------------ routers/parts *)
STAGE_FLOW_ORDER == <<"machining", "fitting", "heat_treatment", "galvanic", "grinding", "qc">>

\* required_stages is kept as the set of its members: the list is always the
\* members in STAGE_FLOW_ORDER.
_sort_stages_by_flow(stages) == stages \cap Range(STAGE_FLOW_ORDER)

_sanitize_requested_stages(stages) == stages \ DEPRECATED_STAGES

\* POST /parts by a request that names a partner (cooperation) or an active
\* machine (in-house) and an unused code.
create_part(data, t) ==
    LET requested_stages == _sanitize_requested_stages(data.required_stages)
        ordered_required_stages == _sort_stages_by_flow(requested_stages)
        part == [is_cooperation |-> data.is_cooperation,
                 qty_plan |-> data.qty_plan,
                 required_stages |-> ordered_required_stages,
                 cooperation_qc_status |->
                     IF ~data.is_cooperation THEN "null"
                     ELSE IF data.cooperation_qc_status = "null" THEN "pending"
                     ELSE data.cooperation_qc_status,
                 cooperation_qc_checked_at |-> Nil,
                 qty_done |-> 0,
                 status |-> "not_started"]
        rows == [s \in ordered_required_stages |-> PendingRow]
        empty == Database(part, rows, {}, {})
    IN
    IF requested_stages = {} THEN Raised("PART_NO_STAGES", empty)
    ELSE IF data.is_cooperation /\ ~(COOP_REQUIRED_STAGES \subseteq requested_stages)
    THEN Raised("PART_COOP_STAGE_REQUIRED", empty)
    ELSE IF data.is_cooperation /\ requested_stages \ COOP_ALLOWED_STAGES # {}
    THEN Raised("PART_COOP_STAGE_INVALID", empty)
    ELSE IF ~data.is_cooperation /\ ~(SHOP_REQUIRED_STAGES \subseteq requested_stages)
    THEN Raised("PART_SHOP_STAGE_REQUIRED", empty)
    ELSE IF ~data.is_cooperation /\ requested_stages \ SHOP_ALLOWED_STAGES # {}
    THEN Raised("PART_SHOP_STAGE_INVALID", empty)
    ELSE Committed(recomputed(empty, t))

\* calculate_part_progress: the ready quantity and the bottleneck stage of the
\* progress report.  The rows are walked in STAGE_FLOW_ORDER, and Python's min
\* keeps the first row that has the smallest done quantity.
calculate_part_progress(p, ss, totals) ==
    LET position(stage) == CHOOSE i \in DOMAIN STAGE_FLOW_ORDER : STAGE_FLOW_ORDER[i] = stage
        stage_done_qty(stage) ==
            LET qty_good == IF totals[stage].present THEN totals[stage].good ELSE 0
            IN IF qty_good < p.qty_plan THEN qty_good ELSE p.qty_plan
        progress_stages == {s \in DOMAIN ss : ss[s].status # "skipped" /\ s \in PROGRESS_STAGES}
        qty_ready == IF progress_stages = {} THEN 0
                     ELSE SetMin({stage_done_qty(s) : s \in progress_stages})
        smallest == {s \in progress_stages : stage_done_qty(s) = qty_ready}
    IN [overall_qty_done |-> qty_ready,
        bottleneck_stage |->
            IF progress_stages = {} THEN NoStage
            ELSE CHOOSE s \in smallest : \A o \in smallest : position(s) <= position(o)]

\* PUT /parts/{part_id}.  The part keeps its kind (is_cooperation is not in the
\* payload), so the cooperation columns of an in-house part are reset to None.
update_part(db, payload, t) ==
    LET part == db.part
        qc_status == IF ~part.is_cooperation THEN "null"
                     ELSE IF "cooperation_qc_status" \in payload.has
                     THEN payload.cooperation_qc_status
                     ELSE part.cooperation_qc_status
        qc_checked_at ==
            IF ~part.is_cooperation THEN Nil
            ELSE IF "cooperation_qc_status" \in payload.has
                    /\ payload.cooperation_qc_status = "pending" THEN Nil
            ELSE IF "cooperation_qc_checked_at" \in payload.has
            THEN payload.cooperation_qc_checked_at
            ELSE part.cooperation_qc_checked_at
        changed == [part EXCEPT
                      !.qty_plan = IF "qty_plan" \in payload.has THEN payload.qty_plan ELSE @,
                      !.required_stages =
                          IF "required_stages" \in payload.has
                          THEN _sort_stages_by_flow(
                                   _sanitize_requested_stages(payload.required_stages))
                          ELSE @,
                      !.cooperation_qc_status = qc_status,
                      !.cooperation_qc_checked_at = qc_checked_at]
    IN Committed(recomputed([db EXCEPT !.part = changed], t))

\* POST /parts/{part_id}/recompute.
recompute_part(db, t) ==
    LET after == recomputed(db, t) IN
    IF validate_stage_flow(after.part, totals_of(after)) THEN Raised("FLOW_VIOLATION", after)
    ELSE Committed(after)

(* ---------------------------------------------------- routers/specifications *)
_mark_part_started_if_needed(p) ==
    IF p.status # "not_started" THEN p
    ELSE IF p.qty_done >= p.qty_plan THEN p
    ELSE [p EXCEPT !.status = "in_progress"]

\* POST /specifications/{specification_id}/items for a make item of the part.
create_specification_item(db) ==
    Committed([db EXCEPT !.part = _mark_part_started_if_needed(@)])

\* A stage-status row set to skipped by hand, outside the handlers.
mark_stage_skipped(db, stage) ==
    [db EXCEPT !.stage_statuses[stage].status = "skipped"]

(* ------------------------------------------------------------ state machine *)
VARIABLES
    part,            \* the Part row
    stage_statuses,  \* the PartStageStatus rows, by stage
    facts,           \* the StageFact rows
    movements,       \* the LogisticsEntry rows
    now,             \* the clock: the time of the next request
    last,            \* the last request served: its handler, the movement status it
                     \* asked for and the error it raised
    requests         \* PATCH /movements requests that run side by side: the row each
                     \* loaded, its payload and how it ended

vars == <<part, stage_statuses, facts, movements, now, last, requests>>

Db == Database(part, stage_statuses, facts, movements)

\* Users with the operator role.
Operators == {1, 2}

\* Optional quantities of a request body.
OptQty == {Nil} \cup (0 .. MaxQty)

\* The parts the behaviours start from: the routes POST /parts accepts, without a
\* QC outcome in the request.
PartRequests ==
    [is_cooperation : BOOLEAN, qty_plan : 1 .. MaxPlan,
     required_stages : {{"machining", "fitting", "qc"},
                        {"machining", "fitting", "heat_treatment", "qc"},
                        {"qc"}, {"heat_treatment", "qc"}},
     cooperation_qc_status : {"null"}]

\* One request reports at most MaxQty pieces, good and scrap together.  The
\* operator is named exactly for machining, where the handler demands it.
FactRequests ==
    {d \in [stage : FACT_ENABLED_STAGES \cup {"heat_treatment"},
            qty_good : 0 .. MaxQty, qty_scrap : 0 .. MaxQty,
            operator_id : Operators \cup {Nil}] :
        /\ d.qty_good + d.qty_scrap <= MaxQty
        /\ (d.operator_id # Nil) <=> (d.stage = "machining")}

FactUpdates ==
    {d \in [qty_good : 0 .. MaxQty, qty_scrap : 0 .. MaxQty, operator_id : Operators] :
        d.qty_good + d.qty_scrap <= MaxQty}

\* The stage links a movement request may carry: none, a row of another part,
\* or one of the part's rows of an externally processed stage.
StageLinks == {NoStage, ForeignStage} \cup (DOMAIN stage_statuses \cap EXTERNAL_MOVEMENT_STAGES)

\* The legacy type of a movement request; only a part-level movement of a
\* cooperation part is treated differently for it.
MovementTypes(sid) ==
    IF part.is_cooperation /\ sid = NoStage THEN {"shipping_out", "coop_in"}
    ELSE {"shipping_out"}

\* A new movement names a quantity sent or none, and a target outside the shop;
\* zero quantities, a received quantity and a target in the shop come with updates.
MovementRequests ==
    {[status |-> st, qty_sent |-> qs, qty_received |-> Nil, stage_id |-> sid,
      type |-> ty, to_shop |-> FALSE, allow_parallel |-> ap] :
        st \in {"pending", "sent", "received"}, qs \in {Nil} \cup (1 .. MaxQty),
        sid \in StageLinks, ty \in {"shipping_out", "coop_in"}, ap \in BOOLEAN}

\* Payloads of PATCH /movements/{id}: has is the set of fields the body names.
MovementPayload(has, status, qty_sent, qty_received, stage_id, to_shop, allow_parallel) ==
    [has |-> has, status |-> status, qty_sent |-> qty_sent, qty_received |-> qty_received,
     stage_id |-> stage_id, to_shop |-> to_shop, allow_parallel |-> allow_parallel]

MovementUpdates ==
    {MovementPayload({}, "", Nil, Nil, NoStage, FALSE, FALSE)}
    \cup {MovementPayload({"status"}, st, Nil, Nil, NoStage, FALSE, ap) :
            st \in MovementStatuses, ap \in BOOLEAN}
    \cup {MovementPayload({"status", "qty_received"}, "received", Nil, q, NoStage, FALSE, FALSE) :
            q \in 0 .. MaxQty}
    \cup {MovementPayload({"qty_sent"}, "", q, Nil, NoStage, FALSE, FALSE) : q \in OptQty}
    \cup {MovementPayload({"qty_received"}, "", Nil, q, NoStage, FALSE, FALSE) : q \in OptQty}
    \cup {MovementPayload({"stage_id"}, "", Nil, Nil, sid, FALSE, FALSE) : sid \in StageLinks}
    \cup {MovementPayload({"to_location"}, "", Nil, Nil, NoStage, b, FALSE) : b \in BOOLEAN}

PartPayload(has, qty_plan, qc_status, qc_checked_at, required_stages) ==
    [has |-> has, qty_plan |-> qty_plan, cooperation_qc_status |-> qc_status,
     cooperation_qc_checked_at |-> qc_checked_at, required_stages |-> required_stages]

\* The routes of the part's kind, as the edit form offers them.
RouteChoices ==
    IF part.is_cooperation THEN {{"qc"}, {"heat_treatment", "qc"}}
    ELSE {{"machining", "fitting", "qc"}, {"machining", "fitting", "heat_treatment", "qc"}}

\* Payloads of PUT /parts/{id}: a new plan, a QC outcome of the cooperation
\* partner's delivery (with or without the time of the check), a new route.
PartUpdates ==
    {PartPayload({"qty_plan"}, q, "null", Nil, {}) : q \in (1 .. MaxPlan) \ {part.qty_plan}}
    \cup {PartPayload({"cooperation_qc_status"}, 0, st, Nil, {}) :
            st \in IF part.is_cooperation THEN {"pending", "accepted", "rejected"} ELSE {}}
    \cup {PartPayload({"cooperation_qc_status", "cooperation_qc_checked_at"}, 0, st, now, {}) :
            st \in IF part.is_cooperation THEN {"accepted", "rejected"} ELSE {}}
    \cup {PartPayload({"required_stages"}, 0, "null", Nil, rs) :
            rs \in RouteChoices \ {part.required_stages}}

Init ==
    \E data \in PartRequests :
        LET out == create_part(data, 0) IN
        /\ out.err = ""
        /\ part = out.db.part
        /\ stage_statuses = out.db.stage_statuses
        /\ facts = out.db.facts
        /\ movements = out.db.movements
        /\ now = 1
        /\ last = [op |-> "create_part", status |-> "", err |-> ""]
        /\ requests = {}

\* A request whose session is committed however the handler ended.
Served_without_rollback(op, status, out) ==
    /\ now < MaxClock
    /\ now' = now + 1
    /\ last' = [op |-> op, status |-> status, err |-> out.err]
    /\ part' = out.db.part
    /\ stage_statuses' = out.db.stage_statuses
    /\ facts' = out.db.facts
    /\ movements' = out.db.movements

\* The request is served at time now, and time moves on: a commit installs the
\* handler's rows; after an error the session is closed without a commit and the
\* rows stay as they were.
Served(op, status, out) ==
    /\ now < MaxClock
    /\ now' = now + 1
    /\ last' = [op |-> op, status |-> status, err |-> out.err]
    /\ IF out.err = ""
       THEN /\ part' = out.db.part
            /\ stage_statuses' = out.db.stage_statuses
            /\ facts' = out.db.facts
            /\ movements' = out.db.movements
       ELSE UNCHANGED <<part, stage_statuses, facts, movements>>

CreateStageFact ==
    \E data \in FactRequests :
        /\ Served("create_stage_fact", "", create_stage_fact(Db, data, now))
        /\ UNCHANGED requests

UpdateStageFact ==
    \E f \in facts, data \in FactUpdates :
        /\ Served("update_stage_fact", "", update_stage_fact(Db, f.id, data, now))
        /\ UNCHANGED requests

DeleteStageFact ==
    \E f \in facts :
        /\ Served("delete_stage_fact", "", delete_stage_fact(Db, f.id, now))
        /\ UNCHANGED requests

CreateMovement ==
    \E data \in MovementRequests :
        /\ data.type \in MovementTypes(data.stage_id)
        /\ Served("create_movement", data.status, create_movement_use_case(Db, data, now))
        /\ UNCHANGED requests

UpdateMovement ==
    \E m \in movements, payload \in MovementUpdates :
        /\ Served("update_movement", payload.status,
                  update_movement_use_case(Db, m.id, payload, now))
        /\ UNCHANGED requests

UpdatePart ==
    \E payload \in PartUpdates :
        /\ Served("update_part", "", update_part(Db, payload, now))
        /\ UNCHANGED requests

RecomputePart ==
    /\ Served("recompute_part", "", recompute_part(Db, now))
    /\ UNCHANGED requests

CreateSpecificationItem ==
    /\ Served("create_specification_item", "", create_specification_item(Db))
    /\ UNCHANGED requests

MarkStageSkipped ==
    \E stage \in DOMAIN stage_statuses :
        /\ stage_statuses[stage].status # "skipped"
        /\ Served("mark_stage_skipped", "", Committed(mark_stage_skipped(Db, stage)))
        /\ UNCHANGED requests

Next ==
    \/ CreateStageFact
    \/ UpdateStageFact
    \/ DeleteStageFact
    \/ CreateMovement
    \/ UpdateMovement
    \/ UpdatePart
    \/ RecomputePart
    \/ CreateSpecificationItem
    \/ MarkStageSkipped

Spec == Init /\ [][Next]_vars

(* ---------------------------------------------- requests that run side by side *)
\* How many PATCH /movements requests are in flight together.
MaxRequests == 2

\* The status payloads of the racing requests.
StatusUpdates == {u \in MovementUpdates : u.has = {"status"} /\ ~u.allow_parallel}

\* resolve_org_entity: the request loads the movement row with a plain SELECT
\* and keeps it in its session; no lock is taken on the row.
BeginUpdateMovement ==
    \E m \in movements, payload \in StatusUpdates :
        /\ Cardinality(requests) < MaxRequests
        /\ requests' = requests \cup
              {[rid |-> Cardinality(requests) + 1, observed |-> m, payload |-> payload,
                result |-> "running"]}
        /\ UNCHANGED <<part, stage_statuses, facts, movements, now, last>>

\* The rest of the handler, from the status guards to the commit, on the row the
\* request loaded: the UPDATE writes the changed columns over the committed row.
FinishUpdateMovement ==
    \E r \in requests :
        /\ r.result = "running"
        /\ LET out == update_movement_from(Db, r.observed, r.payload, now) IN
           /\ Served("update_movement", r.payload.status, out)
           /\ requests' = (requests \ {r}) \cup
                 {[r EXCEPT !.result = IF out.err = "" THEN "committed" ELSE out.err]}

\* The movement the requests race on is created first.
CreateFirstMovement == movements = {} /\ requests = {} /\ CreateMovement

NextConcurrent ==
    \/ CreateFirstMovement
    \/ BeginUpdateMovement
    \/ FinishUpdateMovement

SpecConcurrent == Init /\ [][NextConcurrent]_vars

(* ------------------------------------- creates that run side by side *)
\* POST requests for a movement in status sent, without allow_parallel.
SentCreates == {d \in MovementRequests : d.status = "sent" /\ ~d.allow_parallel}

\* create_movement_use_case up to the last guard: the guards' queries read the
\* rows committed so far.  A request that a guard refuses ends here; one that
\* passes goes on to insert its row, holding no lock on the part or on its
\* movements.
BeginCreateMovement ==
    \E data \in SentCreates :
        LET out == create_movement_use_case(Db, data, now) IN
        /\ data.type \in MovementTypes(data.stage_id)
        /\ Cardinality(requests) < MaxRequests
        /\ IF out.err # ""
           THEN /\ Served("create_movement", data.status, out)
                /\ requests' = requests \cup
                      {[rid |-> Cardinality(requests) + 1, observed |-> Db, payload |-> data,
                        result |-> out.err]}
           ELSE /\ requests' = requests \cup
                      {[rid |-> Cardinality(requests) + 1, observed |-> Db, payload |-> data,
                        result |-> "creating"]}
                /\ UNCHANGED <<part, stage_statuses, facts, movements, now, last>>

\* The row the request inserts, built from its data.
inserted_movement(observed, data, t) ==
    CHOOSE m \in create_movement_use_case(observed, data, t).db.movements : m.id = t

\* The rest of create_movement_use_case: the INSERT, recompute_part_state on
\* the rows committed by now, and the commit.
FinishCreateMovement ==
    \E r \in requests :
        /\ r.result = "creating"
        /\ LET movement == inserted_movement(r.observed, r.payload, now)
               after == [Db EXCEPT !.movements = @ \cup {movement}]
           IN Served("create_movement", r.payload.status, Committed(recomputed(after, now)))
        /\ requests' = (requests \ {r}) \cup {[r EXCEPT !.result = "committed"]}

NextConcurrentCreates ==
    \/ CreateFirstMovement
    \/ BeginCreateMovement
    \/ FinishCreateMovement
    \/ BeginUpdateMovement
    \/ FinishUpdateMovement

SpecConcurrentCreates == Init /\ [][NextConcurrentCreates]_vars

(* ------------------------------------------- the rules applied to stored rows *)
\* The rules of part_state are functions of the rows of one part.  The rows
\* they are applied to here are rows the tables can hold: a part of either kind
\* with any set of stage names as its route and a stage row for each; facts of
\* the stages that take facts; movements of any status, link and quantities.
FactQuantities ==
    {q \in [qty_good : 0 .. MaxQty, qty_scrap : 0 .. MaxQty] :
        q.qty_good + q.qty_scrap \in 1 .. MaxQty}

\* The id of the row stored for a stage.
RowId(stage) == CHOOSE i \in DOMAIN STAGE_FLOW_ORDER : STAGE_FLOW_ORDER[i] = stage

\* The fact rows of an assignment of quantities to some stages.
StoredFacts(reported) ==
    {[id |-> RowId(stage), stage |-> stage, qty_good |-> reported[stage].qty_good,
      qty_scrap |-> reported[stage].qty_scrap, operator_id |-> Nil, created_at |-> 0] :
        stage \in DOMAIN reported}

\* A movement row with the timestamps its status implies.
StoredMovement(id, status, stage_id, qty_sent, qty_received, quantity) ==
    [id |-> id, created_at |-> 0, status |-> status,
     sent_at |-> IF status = "pending" THEN Nil ELSE 0,
     received_at |-> IF status \in RECEIVED_MOVEMENT_STATUSES THEN 0 ELSE Nil,
     returned_at |-> IF status = "returned" THEN 0 ELSE Nil,
     cancelled_at |-> IF status = "cancelled" THEN 0 ELSE Nil,
     qty_sent |-> qty_sent, qty_received |-> qty_received, quantity |-> quantity,
     stage_id |-> stage_id, type |-> "shipping_out", to_shop |-> FALSE]

\* One received movement of some pieces for each of the given stages.
ReceivedBack(delivered) ==
    {StoredMovement(RowId(stage), "received", stage, delivered[stage], Nil, delivered[stage]) :
        stage \in DOMAIN delivered}

\* Any single movement row: every status, no link or a link to any stage row of
\* the part or to a row of another part, every combination of the three
\* quantity columns (quantity is the legacy column).
AnyMovement(ss) ==
    {StoredMovement(0, st, sid, qs, qr, q) :
        st \in MovementStatuses, sid \in {NoStage, ForeignStage} \cup DOMAIN ss,
        qs \in OptQty, qr \in OptQty, q \in OptQty}

StoredParts ==
    {p \in [is_cooperation : BOOLEAN, qty_plan : 1 .. MaxPlan,
            required_stages : SUBSET StageNames,
            cooperation_qc_status : {"null", "pending", "accepted", "rejected"},
            cooperation_qc_checked_at : {Nil}, qty_done : {0}, status : {"not_started"}] :
        (p.cooperation_qc_status = "null") <=> ~p.is_cooperation}

\* Every part, with facts of the fact stages of its route and deliveries of the
\* finishing stages of its route.
InitFlowRows ==
    \E p \in StoredParts :
        \E with_fact \in SUBSET (p.required_stages \cap INTERNAL_FACT_STAGES),
           with_delivery \in SUBSET (p.required_stages \cap EXTERNAL_MOVEMENT_STAGES) :
            \E reported \in [with_fact -> FactQuantities],
               delivered \in [with_delivery -> 1 .. MaxQty] :
                /\ part = p
                /\ stage_statuses = [s \in p.required_stages |-> PendingRow]
                /\ facts = StoredFacts(reported)
                /\ movements = ReceivedBack(delivered)

\* A part with the whole route, any single movement, and with or without one
\* delivery for each of some finishing stages.
InitMovementRows ==
    \E p \in StoredParts :
        \E with_delivery \in SUBSET {"heat_treatment", "galvanic"} :
            /\ p.required_stages = PROGRESS_STAGES
            /\ p.qty_plan = MaxPlan
            /\ p.cooperation_qc_status \in {"null", "pending"}
            /\ part = p
            /\ stage_statuses = [s \in p.required_stages |-> PendingRow]
            /\ facts = {}
            /\ \E m \in AnyMovement(stage_statuses) :
                  movements = {m} \cup ReceivedBack([s \in with_delivery |-> MaxQty])

InitRules ==
    /\ InitFlowRows \/ InitMovementRows
    /\ now = 1
    /\ last = [op |-> "", status |-> "", err |-> ""]
    /\ requests = {}

\* validate_stage_flow(part, compute_stage_totals(db, part=part)) on the rows.
ApplyValidateStageFlow ==
    /\ last' = [op |-> "validate_stage_flow", status |-> "",
                err |-> IF validate_stage_flow(part, totals_of(Db))
                        THEN "FLOW_VIOLATION" ELSE ""]
    /\ UNCHANGED <<part, stage_statuses, facts, movements, now, requests>>

\* recompute_part_state(db, part=part) on the rows.
ApplyRecomputePartState ==
    /\ part' = recomputed(Db, now).part
    /\ stage_statuses' = recomputed(Db, now).stage_statuses
    /\ last' = [op |-> "recompute_part_state", status |-> "", err |-> ""]
    /\ UNCHANGED <<facts, movements, now, requests>>

NextRules ==
    \/ ApplyValidateStageFlow
    \/ ApplyRecomputePartState

SpecRules == InitRules /\ [][NextRules]_vars

(* ------------------------------------------------------------------ claims *)
\* The handlers that end with recompute_part_state.
RecomputingHandlers ==
    {"create_part", "create_stage_fact", "update_stage_fact", "delete_stage_fact",
     "create_movement", "update_movement", "update_part", "recompute_part"}

\* The last request committed and its handler recomputed the part.
JustRecomputed == last.err = "" /\ last.op \in RecomputingHandlers

\* C1 (flow containment): in every committed state, every required stage with a
\* non-empty prerequisite list has good + scrap <= the minimum good of its
\* prerequisites.
C1_FlowContainment ==
    \A stage \in part.required_stages :
        stage_prerequisites(part, stage) # <<>> =>
            processed(totals_of(Db)[stage])
                <= SetMin({totals_of(Db)[s].good : s \in Range(stage_prerequisites(part, stage))})

\* The minimum of good over the rows that are not skipped, 0 when there is none.
BottleneckOf(db) ==
    LET counted == {s \in DOMAIN db.stage_statuses : db.stage_statuses[s].status # "skipped"}
    IN IF counted = {} THEN 0
       ELSE SetMin({totals_of(db)[s].good : s \in counted})

\* C2 (bottleneck law): after recompute_part_state, qty_done is the minimum of
\* good over the stage rows that are not skipped, or 0 without such a row; and a
\* fact that raises good of a stage above the minimum leaves qty_done as it was.
C2_BottleneckLaw ==
    LET bottleneck == BottleneckOf(Db) IN
    /\ recomputed(Db, now).part.qty_done = bottleneck
    /\ JustRecomputed => part.qty_done = bottleneck
    /\ now < MaxClock =>
         \A data \in FactRequests :
            (/\ data.stage \in DOMAIN stage_statuses
             /\ stage_statuses[data.stage].status # "skipped"
             /\ totals_of(Db)[data.stage].good > bottleneck
             /\ create_stage_fact(Db, data, now).err = "")
              => create_stage_fact(Db, data, now).db.part.qty_done = bottleneck

\* A row is skipped, the other rows have good above 0, and the fact just
\* recorded left qty_done at their minimum.
C2_Witness ==
    /\ last = [op |-> "create_stage_fact", status |-> "", err |-> ""]
    /\ \E s \in DOMAIN stage_statuses : stage_statuses[s].status = "skipped"
    /\ part.qty_done > 0
    /\ part.qty_done = BottleneckOf(Db)

\* C3 (idempotence): a recompute that follows a recompute, with no fact,
\* movement or part change in between, leaves the stage rows, qty_done and the
\* part's status as the first one left them.
C3_RecomputeIdempotent ==
    [][(JustRecomputed /\ last'.op = "recompute_part" /\ last'.err = "")
          => (stage_statuses' = stage_statuses /\ part' = part)]_vars

\* The stage rows with what earlier recomputes derived wiped out: every row
\* that is not skipped back to pending.
WithBlankRows(db) ==
    [db EXCEPT !.stage_statuses =
        [s \in DOMAIN @ |-> IF @[s].status = "skipped" THEN @[s] ELSE PendingRow]]

\* What the claim compares: each row's status, qty_done and the part's status.
DerivedView(db) ==
    [stages |-> [s \in DOMAIN db.stage_statuses |-> db.stage_statuses[s].status],
     qty_done |-> db.part.qty_done,
     status |-> db.part.status]

\* C4 (order independence): the per-stage status, qty_done and the part's status
\* depend on the facts and movements there are, not on the writes that led to
\* them: they are what a recompute over blank rows derives from the same facts
\* and movements.
C4_OrderIndependent ==
    /\ DerivedView(recomputed(Db, now)) = DerivedView(recomputed(WithBlankRows(Db), now))
    /\ JustRecomputed => DerivedView(Db) = DerivedView(recomputed(WithBlankRows(Db), now))

\* A fact has been taken back after it had brought its stage to done, and the
\* handler's recompute has returned the stage to what the remaining facts give.
C4_Witness ==
    /\ last.op \in {"update_stage_fact", "delete_stage_fact"}
    /\ last.err = ""
    /\ \E s \in DOMAIN stage_statuses :
          /\ stage_statuses[s].status \in {"pending", "in_progress"}
          /\ totals_of(Db)[s].good < part.qty_plan
          /\ \E f \in facts : f.stage = "machining" /\ f.qty_good >= part.qty_plan
    /\ movements # {}

\* C5 (terminal statuses): no request changes the status of a movement that is
\* cancelled, received or returned.
C5_TerminalStatusKept ==
    [][\A m \in movements : \A n \in movements' :
          (n.id = m.id /\ m.status \in {"cancelled", "received", "returned"})
            => n.status = m.status]_vars

\* The only movement is in a terminal status and the request just served asked
\* for another status and was refused.
C5_Witness ==
    /\ \E m \in movements :
          /\ movements = {m}
          /\ m.status \in {"cancelled", "received", "returned"}
          /\ last.status \notin {"", m.status}
    /\ last.op = "update_movement"
    /\ last.err = "MOVEMENT_INVALID_STATUS_TRANSITION"

\* C6 (received requires sent): a request for received on a movement that is
\* pending, or whose sent_at is unset, is refused whatever quantities it carries.
C6_ReceivedRequiresSent ==
    \A m \in movements : \A payload \in MovementUpdates :
        (/\ "status" \in payload.has
         /\ payload.status = "received"
         /\ (m.status = "pending" \/ m.sent_at = Nil))
          => update_movement_use_case(Db, m.id, payload, now).err # ""

\* The only movement is pending and the request just served asked for received
\* and was refused.
C6_Witness ==
    /\ \E m \in movements : movements = {m} /\ m.status = "pending" /\ m.sent_at = Nil
    /\ last = [op |-> "update_movement", status |-> "received",
               err |-> "MOVEMENT_INVALID_STATUS_TRANSITION"]

\* The movements of the part that are active.
ActiveMovements == {m \in movements : m.status \in ACTIVE_MOVEMENT_STATUSES}

\* C7 (single active movement): while one movement is active, a create or an
\* update that brings another movement from a non-active status into sent or
\* in_transit without allow_parallel is refused; without an active movement the
\* guard refuses nothing; and an active movement passes the guard on its way
\* between sent and in_transit.
C7_SingleActiveMovement ==
    /\ \A data \in MovementRequests :
          (data.status \in ACTIVE_MOVEMENT_STATUSES /\ ~data.allow_parallel)
            => IF ActiveMovements # {}
               THEN create_movement_use_case(Db, data, now).err # ""
               ELSE create_movement_use_case(Db, data, now).err # "MOVEMENT_ACTIVE_CONFLICT"
    /\ \A m \in movements : \A payload \in MovementUpdates :
          (/\ payload.has = {"status"}
           /\ payload.status \in ACTIVE_MOVEMENT_STATUSES
           /\ ~payload.allow_parallel)
            => /\ (m.status \notin ACTIVE_MOVEMENT_STATUSES /\ ActiveMovements # {})
                    => update_movement_use_case(Db, m.id, payload, now).err # ""
               /\ (/\ ActiveMovements \ {m} = {}
                   /\ validate_status_transition(m.status, payload.status)
                   /\ ensure_not_cancelled_to_received(m.status, payload.status))
                    => status_guard_error(Db, m, payload) = ""
               /\ (/\ m.status \in ACTIVE_MOVEMENT_STATUSES
                   /\ validate_status_transition(m.status, payload.status))
                    => status_guard_error(Db, m, payload) = ""

\* One movement is active and the request just served tried to start a second
\* one and was refused for it.
C7_Witness ==
    /\ ActiveMovements # {}
    /\ last.op = "create_movement"
    /\ last.status = "sent"
    /\ last.err = "MOVEMENT_ACTIVE_CONFLICT"

\* The requests that committed a change of the status they had loaded.
CommittedTransitions ==
    {r \in requests : r.result = "committed" /\ r.payload.status # r.observed.status}

\* C8 (concurrent transitions): two requests that loaded the same movement in
\* the same status do not both commit a status transition of it.
C8_OneTransitionPerObservedStatus ==
    \A r1 \in CommittedTransitions : \A r2 \in CommittedTransitions :
        (r1.observed.id = r2.observed.id /\ r1.observed.status = r2.observed.status)
          => r1 = r2

\* C9 (cooperation receive ceiling): for a cooperation part, the part-level
\* movements in received or completed never add up to more than qty_plan.
C9_CooperationReceiveCeiling ==
    part.is_cooperation => _cooperation_received_qty(movements, Nil) <= part.qty_plan

\* What the movements linked to the stage, other than movement_id, hold of it:
\* the full quantity of those received or completed, qty_sent of those sent or
\* in transit with sent_at set.
AllocatedByOthers(db, stage, movement_id) ==
    LET others == {m \in db.movements : m.stage_id = stage /\ m.id # movement_id}
        held(m) == IF m.status \in {"received", "completed"}
                   THEN (IF m.qty_received # Nil THEN m.qty_received
                         ELSE IF m.qty_sent # Nil THEN m.qty_sent ELSE 0)
                   ELSE IF m.status \in {"sent", "in_transit"} /\ m.sent_at # Nil
                   THEN (IF m.qty_sent # Nil THEN m.qty_sent ELSE 0)
                   ELSE 0
    IN Sum([m \in others |-> held(m)], others)

\* The quantity the stage can take: the minimum good of its prerequisites; for a
\* stage without prerequisites, what the cooperation partner has delivered
\* (finishing stage of a cooperation part) or qty_plan.
SourceQty(db, stage) ==
    LET prereq == Range(stage_prerequisites(db.part, stage)) IN
    IF prereq # {} THEN SetMin({totals_of(db)[s].good : s \in prereq})
    ELSE IF db.part.is_cooperation /\ stage \in {"heat_treatment", "galvanic", "grinding"}
    THEN _cooperation_received_qty(db.movements, Nil)
    ELSE db.part.qty_plan

\* The movement stands within the ceiling of the stage it is linked to: its
\* quantity is above 0 and within what the other movements leave of the source,
\* so the stage's whole allocation is within the source.
WithinStageCeiling(db, m) ==
    LET requested == requested_stage_qty(m.status, m.qty_sent, m.qty_received)
        others == AllocatedByOthers(db, m.stage_id, m.id)
        source == SourceQty(db, m.stage_id)
    IN /\ requested # Nil
       /\ requested > 0
       /\ requested <= Max2(source - others, 0)
       /\ others + requested <= source

\* The movement is linked to a stage row of the part and is sent, in transit or
\* received.
HoldsStage(db, m) ==
    /\ m.stage_id \in DOMAIN db.stage_statuses
    /\ m.status \in {"sent", "in_transit", "received"}

\* The outcome of a write on movement_id is acceptable to the ceiling: it failed,
\* or the movement it left does not hold a stage, or it is within the ceiling.
CeilingKept(out, movement_id) ==
    out.err = "" =>
        \A m \in out.db.movements :
            (m.id = movement_id /\ HoldsStage(out.db, m)) => WithinStageCeiling(out.db, m)

\* The create requests that ask for a movement holding a stage.
StageCreates ==
    {data \in MovementRequests :
        data.stage_id \in DOMAIN stage_statuses /\ data.status \in {"sent", "received"}}

\* The payloads that, accepted, leave movement m holding a stage.
StageUpdates(m) ==
    {payload \in MovementUpdates :
        LET stage_id == IF "stage_id" \in payload.has THEN payload.stage_id ELSE m.stage_id
            status == IF "status" \in payload.has THEN payload.status ELSE m.status
        IN stage_id \in DOMAIN stage_statuses /\ status \in {"sent", "in_transit", "received"}}

\* C10 (stage allocation ceiling): every create and every update that succeeds
\* and leaves a stage-linked movement in sent, in_transit or received has a
\* quantity above 0 and within max(source - allocated by the others, 0), so the
\* stage's allocation is within the source right after it.
C10_EveryWriteWithinCeiling ==
    /\ \A data \in StageCreates :
          CeilingKept(create_movement_use_case(Db, data, now), now)
    /\ \A m \in movements : \A payload \in StageUpdates(m) :
          CeilingKept(update_movement_use_case(Db, m.id, payload, now), m.id)

\* The quantities of a movement are consistent: a received quantity is within
\* the quantity sent when the row has both.
QuantitiesConsistent(m) ==
    (m.qty_sent # Nil /\ m.qty_received # Nil) => m.qty_received <= m.qty_sent

\* Create requests with every pair of quantities, for a part-level movement.
QuantityCreates ==
    {[status |-> st, qty_sent |-> qs, qty_received |-> qr, stage_id |-> NoStage,
      type |-> "shipping_out", to_shop |-> FALSE, allow_parallel |-> TRUE] :
        st \in {"pending", "sent", "received"}, qs \in OptQty, qr \in OptQty}

\* Update payloads that name one or both quantities, or ask for received.
QuantityUpdates ==
    {u \in MovementUpdates : u.has \cap {"qty_sent", "qty_received"} # {}}
    \cup {MovementPayload({"qty_sent", "qty_received"}, "", qs, qr, NoStage, FALSE, FALSE) :
            qs \in OptQty, qr \in OptQty}
    \cup {MovementPayload({"status"}, "received", Nil, Nil, NoStage, FALSE, FALSE)}

\* C11 (received within sent): every movement that has both quantities has
\* qty_received <= qty_sent; a create that names a received quantity above the
\* quantity sent is refused, and every create or update that is accepted leaves
\* the movement it wrote with qty_received <= qty_sent.
C11_ReceivedWithinSent ==
    /\ \A m \in movements : QuantitiesConsistent(m)
    /\ now < MaxClock =>
         /\ \A data \in QuantityCreates :
               LET out == create_movement_use_case(Db, data, now) IN
               /\ (data.qty_sent # Nil /\ data.qty_received # Nil
                     /\ data.qty_received > data.qty_sent) => out.err # ""
               /\ out.err = "" => \A m \in out.db.movements : QuantitiesConsistent(m)
         /\ \A m \in movements : \A payload \in QuantityUpdates :
               LET out == update_movement_use_case(Db, m.id, payload, now) IN
               out.err = "" => \A n \in out.db.movements : QuantitiesConsistent(n)

\* A movement has both quantities and the update just served was refused for a
\* received quantity above the quantity sent.
C11_Witness ==
    /\ last.op = "update_movement"
    /\ last.err = "MOVEMENT_INVALID_QUANTITY"
    /\ \E m \in movements : m.qty_sent # Nil /\ m.qty_received # Nil

\* C12 (received after sent): a movement whose received_at is set has its
\* sent_at set.
C12_ReceivedAtOnlyWithSentAt ==
    \A m \in movements : m.received_at # Nil => m.sent_at # Nil

\* The update just served brought a movement that had been sent earlier into
\* received: both timestamps are set and differ.
C12_Witness ==
    /\ last = [op |-> "update_movement", status |-> "received", err |-> ""]
    /\ \E m \in movements :
          m.status = "received" /\ m.received_at = now - 1 /\ m.sent_at \notin {Nil, now - 1}

\* C13 (cancelled is immutable): no request changes any field of a movement
\* whose status is cancelled.
C13_CancelledImmutable ==
    [][\A m \in movements : m.status = "cancelled" => m \in movements']_vars

\* The handlers of the movement and fact writes.
WriteHandlers ==
    {"create_movement", "update_movement",
     "create_stage_fact", "update_stage_fact", "delete_stage_fact"}

\* The session of a handler that raised holds the part and the stage rows as
\* they were loaded: recompute_part_state has not run in it.
NotRecomputed(out) ==
    out.err # "" => (out.db.part = part /\ out.db.stage_statuses = stage_statuses)

\* Whatever movement or fact write comes next, if it is refused it is refused
\* before recompute_part_state.
RejectedBeforeRecompute ==
    now < MaxClock =>
      /\ \A data \in FactRequests : NotRecomputed(create_stage_fact(Db, data, now))
      /\ \A f \in facts :
            /\ NotRecomputed(delete_stage_fact(Db, f.id, now))
            /\ \A data \in FactUpdates : NotRecomputed(update_stage_fact(Db, f.id, data, now))
      /\ \A data \in MovementRequests : NotRecomputed(create_movement_use_case(Db, data, now))
      /\ \A m \in movements : \A payload \in MovementUpdates :
            NotRecomputed(update_movement_use_case(Db, m.id, payload, now))

\* C14 (rejections change nothing): a movement or fact write that is refused
\* leaves the part (qty_done and status with it), the stage rows, the facts and
\* the movements as they were, and is refused before the recompute.
C14_RejectionLeavesStateUntouched ==
    /\ []RejectedBeforeRecompute
    /\ [][(last'.op \in WriteHandlers /\ last'.err # "")
            => UNCHANGED <<part, stage_statuses, facts, movements>>]_vars

\* The update just served was refused by the stage guard, which runs after the
\* handler has set the payload's fields on the movement.
C14_Witness ==
    /\ last.op = "update_movement"
    /\ last.err = "MOVEMENT_STAGE_CONSTRAINT_VIOLATION"
    /\ movements # {}

\* C15 (one writer of the derived fields): a step that changes qty_done or the
\* part's status is the step of a handler that runs recompute_part_state.
C15_OnlyRecomputeWritesDerived ==
    [][(part'.qty_done # part.qty_done \/ part'.status # part.status)
          => last'.op \in RecomputingHandlers]_vars

\* C16 (ready quantity within the plan): 0 <= qty_done <= qty_plan.
C16_ReadyWithinPlan ==
    0 <= part.qty_done /\ part.qty_done <= part.qty_plan

\* C17 (stage link of the same part): the stage link of every movement is unset
\* or names a stage-status row of the movement's part; a create or an update
\* that names a row of another part is refused.
C17_StageLinkOfSamePart ==
    /\ \A m \in movements : m.stage_id = NoStage \/ m.stage_id \in DOMAIN stage_statuses
    /\ \A data \in MovementRequests :
          data.stage_id = ForeignStage => create_movement_use_case(Db, data, now).err # ""
    /\ \A m \in movements : \A payload \in MovementUpdates :
          ("stage_id" \in payload.has /\ payload.stage_id = ForeignStage)
            => update_movement_use_case(Db, m.id, payload, now).err # ""

\* A movement is linked to a stage row of the part, and the update just served
\* tried to link a movement to a row of another part and was refused for it.
C17_Witness ==
    /\ last.op = "update_movement"
    /\ last.err = "MOVEMENT_STAGE_PART_MISMATCH"
    /\ \E m \in movements : m.stage_id \in DOMAIN stage_statuses

\* The timestamp columns that follow the status.
StatusTimestamps == {"sent_at", "received_at", "returned_at", "cancelled_at"}

\* The statuses whose entry sets the timestamp.
StampedBy(column) ==
    CASE column = "sent_at" -> {"sent", "in_transit"}
      [] column = "received_at" -> {"received"}
      [] column = "returned_at" -> {"returned"}
      [] column = "cancelled_at" -> {"cancelled"}

\* What one step may do to the timestamps of a movement: m before, n after.
TimestampsFollowStatus(m, n) ==
    /\ \A c \in StatusTimestamps :
          \* a timestamp that is set stays as it is
          /\ m[c] # Nil => n[c] = m[c]
          \* it becomes set only on entering a status that stamps it
          /\ (m[c] = Nil /\ n[c] # Nil)
                => (n.status \in StampedBy(c) /\ m.status \notin StampedBy(c))
          \* and entering the status sets it
          /\ (n.status \in StampedBy(c) /\ m.status \notin StampedBy(c)) => n[c] # Nil
    /\ (m.status = "sent" /\ n.status = "in_transit")
          => \A c \in StatusTimestamps : n[c] = m[c]

\* C18 (timestamps are set once): over the updates of a movement, sent_at is set
\* on the first entry into sent or in_transit and kept, received_at, returned_at
\* and cancelled_at are each set once, on entering their status, and an update
\* from sent to in_transit changes no timestamp.
C18_TimestampsSetOnce ==
    [][\A m \in movements : \A n \in movements' :
          n.id = m.id => TimestampsFollowStatus(m, n)]_vars

\* The update just served took a movement sent earlier to in_transit.
C18_Witness ==
    /\ last = [op |-> "update_movement", status |-> "in_transit", err |-> ""]
    /\ \E m \in movements :
          m.status = "in_transit" /\ m.sent_at # Nil /\ m.sent_at < now - 1

\* The status, the timestamps and the quantities of a movement.
StatusTimesQuantities(m) ==
    <<m.status, m.sent_at, m.received_at, m.returned_at, m.cancelled_at,
      m.qty_sent, m.qty_received, m.quantity>>

\* C19 (idempotent retry): an update that asks for the status the movement is in
\* succeeds and leaves the movement's status, timestamps and quantities as they were.
C19_RetryIsNoOp ==
    \A m \in movements : \A payload \in MovementUpdates :
        (payload.has = {"status"} /\ payload.status = m.status)
          => LET out == update_movement_use_case(Db, m.id, payload, now) IN
             /\ out.err = ""
             /\ \E n \in out.db.movements :
                   n.id = m.id /\ StatusTimesQuantities(n) = StatusTimesQuantities(m)

\* What the part-level movements other than movement_id have brought in:
\* coalesce(qty_received, qty_sent, quantity, 0) of those received or completed.
AlreadyReceived(db, movement_id) ==
    LET others == {m \in db.movements : /\ m.stage_id = NoStage
                                         /\ m.status \in {"received", "completed"}
                                         /\ m.id # movement_id}
        brought(m) == IF m.qty_received # Nil THEN m.qty_received
                      ELSE IF m.qty_sent # Nil THEN m.qty_sent
                      ELSE IF m.quantity # Nil THEN m.quantity ELSE 0
    IN Sum([m \in others |-> brought(m)], others)

\* The incoming quantity is there, above 0 and within what the plan leaves.
WithinReceiveCeiling(db, movement_id, qty_sent, qty_received) ==
    LET incoming == IF qty_received # Nil THEN qty_received ELSE qty_sent IN
    /\ incoming # Nil
    /\ incoming > 0
    /\ AlreadyReceived(db, movement_id) + incoming <= db.part.qty_plan

\* Creates of a part-level movement in received that comes in from the
\* cooperation partner: of type coop_in, or with a target in the shop.
InboundCreates ==
    {d \in [status : {"received"}, qty_sent : OptQty, qty_received : OptQty,
            stage_id : {NoStage}, type : {"shipping_out", "coop_in"}, to_shop : BOOLEAN,
            allow_parallel : {FALSE}] :
        d.type = "coop_in" \/ d.to_shop}

\* C20 (cooperation receive guard): a part-level cooperation-inbound movement
\* that enters received, by a create or by an update, is accepted only with an
\* incoming quantity (qty_received, else qty_sent) that is there, above 0 and
\* with the other unlinked received movements within qty_plan.
C20_ReceiveGuard ==
    (part.is_cooperation /\ now < MaxClock) =>
      /\ \A data \in InboundCreates :
            LET out == create_movement_use_case(Db, data, now) IN
            out.err = "" => WithinReceiveCeiling(Db, now, data.qty_sent, data.qty_received)
      /\ \A m \in movements : \A payload \in MovementUpdates :
            (/\ m.stage_id = NoStage
             /\ m.type = "coop_in" \/ m.to_shop
             /\ m.status \in {"sent", "in_transit"}
             /\ "status" \in payload.has
             /\ payload.status = "received")
              => LET out == update_movement_use_case(Db, m.id, payload, now) IN
                 out.err = "" =>
                   \E n \in out.db.movements :
                      /\ n.id = m.id
                      /\ WithinReceiveCeiling(Db, m.id, n.qty_sent, n.qty_received)

\* Part of the plan has come in already and the request just served, for a
\* further inbound movement in received, was refused by the receive guard.
C20_Witness ==
    /\ part.is_cooperation
    /\ last.status = "received"
    /\ last.err = "MOVEMENT_COOPERATION_LIMIT_VIOLATION"
    /\ AlreadyReceived(Db, Nil) > 0

\* Update payloads that ask for received, with or without the two quantities.
ReceivingUpdates ==
    {MovementPayload({"status"} \cup h, "received", qs, qr, NoStage, FALSE, TRUE) :
        h \in SUBSET {"qty_sent", "qty_received"}, qs \in OptQty, qr \in OptQty}

\* The value a request supplies for a field: Nil when the body does not name it.
Supplied(payload, field) == IF field \in payload.has THEN payload[field] ELSE Nil

\* C21 (received quantity defaults to the quantity sent): an accepted update
\* that brings a movement from sent or in_transit into received, and an accepted
\* create in status received, leave qty_received = qty_sent when the request
\* supplies no qty_received and the row stores none; a qty_received the request
\* supplies is stored as given.
C21_ReceivedQtyDefaultsToSent ==
    now < MaxClock =>
      /\ \A m \in movements : \A payload \in ReceivingUpdates :
            LET out == update_movement_use_case(Db, m.id, payload, now)
                row == CHOOSE n \in out.db.movements : n.id = m.id
            IN (out.err = "" /\ m.status \in {"sent", "in_transit"}) =>
                 /\ row.status = "received"
                 /\ Supplied(payload, "qty_received") # Nil
                      => row.qty_received = payload.qty_received
                 /\ (Supplied(payload, "qty_received") = Nil /\ m.qty_received = Nil)
                      => row.qty_received = row.qty_sent
      /\ \A data \in QuantityCreates :
            LET out == create_movement_use_case(Db, data, now)
                row == CHOOSE n \in out.db.movements : n.id = now
            IN (out.err = "" /\ data.status = "received") =>
                 /\ row.status = "received"
                 /\ data.qty_received # Nil => row.qty_received = data.qty_received
                 /\ data.qty_received = Nil => row.qty_received = row.qty_sent

\* The update just served named only the status and brought a movement with a
\* quantity sent and no quantity received into received: the quantity received
\* is now the quantity sent.
C21_Witness ==
    /\ last = [op |-> "update_movement", status |-> "received", err |-> ""]
    /\ \E m \in movements :
          /\ m.status = "received" /\ m.received_at = now - 1
          /\ m.sent_at \notin {Nil, now - 1}
          /\ m.qty_sent # Nil /\ m.qty_received = m.qty_sent

\* C22 (stage rows follow the route): in every state the part has exactly one
\* stage row for each stage of required_stages and no row for any other stage,
\* also after update_part has changed required_stages.
C22_StageRowsMatchRequiredStages ==
    DOMAIN stage_statuses = part.required_stages

\* C23 (pending sets no timestamp): a movement in status pending has sent_at,
\* received_at, returned_at and cancelled_at unset, and the timestamp derivation
\* for pending leaves four unset timestamps unset.
C23_PendingHasNoTimestamp ==
    /\ \A m \in movements :
          m.status = "pending" =>
              /\ m.sent_at = Nil /\ m.received_at = Nil
              /\ m.returned_at = Nil /\ m.cancelled_at = Nil
    /\ apply_status_timestamps("pending", Nil, Nil, Nil, Nil, now)
          = [sent_at |-> Nil, received_at |-> Nil, returned_at |-> Nil, cancelled_at |-> Nil]

\* The update just served asked for pending on a pending movement and was
\* accepted: the timestamp derivation has run for pending on a stored row.
C23_Witness ==
    /\ last = [op |-> "update_movement", status |-> "pending", err |-> ""]
    /\ \E m \in movements : m.status = "pending" /\ m.created_at < now - 1

\* The movement rows with m stored as a row in status st that has no sent_at.
WithUnsentRow(m, st) == (movements \ {m}) \cup {[m EXCEPT !.status = st, !.sent_at = Nil]}

\* C24 (whereabouts ignore what has not shipped): the location and holder of the
\* journey report are never read from a pending movement, nor from a sent or
\* in_transit movement without sent_at, stored in place of any of the part's
\* movements; a sent movement with sent_at is the one they are read from when
\* it is the latest shipment under way, unless the cooperation part is shown as
\* partly received.
C24_WhereaboutsFromShippedOnly ==
    /\ \A w \in current_whereabouts(part, movements) :
          \A m \in movements :
              w.movement = m.id =>
                  /\ m.status # "pending"
                  /\ m.status \in {"sent", "in_transit"} => m.sent_at # Nil
    /\ \A m \in movements : \A st \in {"sent", "in_transit"} :
          \A w \in current_whereabouts(part, WithUnsentRow(m, st)) : w.movement # m.id
    /\ \A m \in movements :
          (m.status = "sent" /\ m.sent_at # Nil) =>
              /\ current_whereabouts(part, {m}) = {[movement |-> m.id, taken_from |-> "to"]}
              /\ \A w \in current_whereabouts(part, movements) :
                    \/ w.taken_from = "cooperator_and_shop"
                    \/ \E n \in movements :
                          /\ w.movement = n.id
                          /\ n.status \in ACTIVE_MOVEMENT_STATUSES
                          /\ journey_order_key(n) >= journey_order_key(m)

\* A pending movement is the first row of the journey's list and an older
\* movement is sent: the location is the target of the sent one.
C24_Witness ==
    \E p \in movements, s \in movements :
        /\ p.status = "pending" /\ s.status = "sent" /\ s.sent_at # Nil
        /\ journey_order_key(p) > journey_order_key(s)
        /\ first_in_journey_order(movements) = {p}
        /\ current_whereabouts(part, movements) = {[movement |-> s.id, taken_from |-> "to"]}

\* The transitions of the reference table, as pairs (current, next).
ReferenceTransitions ==
    ({"pending"} \X {"sent", "cancelled"})
    \cup ({"sent"} \X {"in_transit", "received", "returned", "cancelled"})
    \cup ({"in_transit"} \X {"received", "returned", "cancelled"})

\* A request that names only the status, free of the single-active rule.
StatusOnly(st) == MovementPayload({"status"}, st, Nil, Nil, NoStage, FALSE, TRUE)

\* C25 (transition table): for every pair of the seven statuses,
\* validate_status_transition accepts the pair iff next = current or the pair is
\* in the reference table; the error of every other pair names the current and
\* the requested status; received, returned and cancelled have no outgoing
\* transition; and an update of a stored movement is accepted only for a pair
\* the table has.
C25_TransitionTable ==
    /\ \A current \in MovementStatuses : \A nxt \in MovementStatuses :
          /\ validate_status_transition(current, nxt)
                <=> (nxt = current \/ <<current, nxt>> \in ReferenceTransitions)
          /\ ~validate_status_transition(current, nxt) =>
                LET msg == status_transition_message(current, nxt) IN
                \E i \in DOMAIN msg : \E j \in DOMAIN msg :
                    i < j /\ msg[i] = current /\ msg[j] = nxt
    /\ \A current \in {"received", "returned", "cancelled"} :
          \A nxt \in MovementStatuses \ {current} : ~validate_status_transition(current, nxt)
    /\ now < MaxClock =>
          \A m \in movements : \A st \in MovementStatuses :
              LET out == update_movement_use_case(Db, m.id, StatusOnly(st), now) IN
              /\ out.err = "" => (st = m.status \/ <<m.status, st>> \in ReferenceTransitions)
              /\ (st # m.status /\ <<m.status, st>> \notin ReferenceTransitions)
                    => out.err = "MOVEMENT_INVALID_STATUS_TRANSITION"

\* The update just served asked a movement under way to go back to pending and
\* was refused by the table.
C25_Witness ==
    /\ last = [op |-> "update_movement", status |-> "pending",
               err |-> "MOVEMENT_INVALID_STATUS_TRANSITION"]
    /\ \E m \in movements : m.status \in {"sent", "in_transit"}

\* good of a stage in the totals of the stored rows, 0 for a missing entry.
GoodOf(stage) == IF totals_of(Db)[stage].present THEN totals_of(Db)[stage].good ELSE 0

\* good + scrap of a stage in the totals of the stored rows, 0 for a missing entry.
ProcessedOf(stage) ==
    IF totals_of(Db)[stage].present
    THEN totals_of(Db)[stage].good + totals_of(Db)[stage].scrap ELSE 0

\* The stages the flow rule constrains: required, neither machining nor
\* logistics, with at least one prerequisite.
ConstrainedStages ==
    {stage \in part.required_stages \ {"machining", "logistics"} :
        stage_prerequisites(part, stage) # <<>>}

\* C26 (flow validator): validate_stage_flow returns a violation iff some
\* required stage other than machining and logistics has a non-empty
\* prerequisite list and good + scrap above the minimum good of its
\* prerequisites, a missing totals entry counting as 0; a stage with an empty
\* prerequisite list produces no violation whatever its totals.
C26_ValidatorMatchesRule ==
    /\ validate_stage_flow(part, totals_of(Db))
          <=> \E stage \in ConstrainedStages :
                 \E p \in Range(stage_prerequisites(part, stage)) :
                     ProcessedOf(stage) > GoodOf(p)
    /\ \A stage \in part.required_stages :
          stage_prerequisites(part, stage) = <<>> => stage \notin flow_violations(part, totals_of(Db))
    /\ last.op = "validate_stage_flow" =>
          (last.err = "FLOW_VIOLATION" <=> validate_stage_flow(part, totals_of(Db)))

\* The validator has just reported a violation on rows where a stage without
\* prerequisites has pieces processed and a constrained stage has a
\* prerequisite with no totals entry.
C26_Witness ==
    /\ last = [op |-> "validate_stage_flow", status |-> "", err |-> "FLOW_VIOLATION"]
    /\ \E stage \in part.required_stages :
          stage_prerequisites(part, stage) = <<>> /\ ProcessedOf(stage) > 0
    /\ \E stage \in ConstrainedStages :
          \E p \in Range(stage_prerequisites(part, stage)) :
              ~totals_of(Db)[p].present /\ ProcessedOf(stage) > 0

\* The first stage of a priority list that the route has, as a list of one, or
\* the empty list.
RECURSIVE FirstRequired(_, _)
FirstRequired(priority, route) ==
    IF priority = <<>> THEN <<>>
    ELSE IF Head(priority) \in route THEN <<Head(priority)>>
    ELSE FirstRequired(Tail(priority), route)

\* The stages of a list that the route has, in the order of the list.
RECURSIVE AllRequired(_, _)
AllRequired(list, route) ==
    IF list = <<>> THEN <<>>
    ELSE (IF Head(list) \in route THEN <<Head(list)>> ELSE <<>>)
         \o AllRequired(Tail(list), route)

\* The reference rule table: the prerequisites of a stage for a kind of part
\* and a route, each named stage counting only when the route has it.
ReferencePrerequisites(is_cooperation, route, stage) ==
    IF is_cooperation
    THEN CASE stage = "galvanic" -> FirstRequired(<<"heat_treatment">>, route)
           [] stage = "grinding" -> FirstRequired(<<"galvanic", "heat_treatment">>, route)
           [] stage = "qc" -> AllRequired(<<"heat_treatment", "galvanic", "grinding">>, route)
           [] OTHER -> <<>>
    ELSE CASE stage = "fitting" -> FirstRequired(<<"machining">>, route)
           [] stage = "heat_treatment" -> FirstRequired(<<"fitting">>, route)
           [] stage = "galvanic" -> FirstRequired(<<"heat_treatment", "fitting">>, route)
           [] stage = "grinding" ->
                FirstRequired(<<"galvanic", "heat_treatment", "fitting">>, route)
           [] stage = "qc" ->
                AllRequired(<<"fitting", "heat_treatment", "galvanic", "grinding">>, route)
           [] OTHER -> <<>>

FlowPosition(stage) == CHOOSE i \in DOMAIN STAGE_FLOW_ORDER : STAGE_FLOW_ORDER[i] = stage

\* The prerequisite relation of the part: s is an immediate prerequisite of t.
PrerequisiteOf(s, t) == s \in Range(stage_prerequisites(part, t))

\* The stages from which stage is reached along prerequisite edges in at most
\* n steps.
RECURSIVE Upstream(_, _)
Upstream(stage, n) ==
    IF n = 0 THEN {}
    ELSE LET direct == {s \in PROGRESS_STAGES : PrerequisiteOf(s, stage)}
         IN direct \cup UNION {Upstream(s, n - 1) : s \in direct}

\* C28 (prerequisites are required and earlier): for the part of either kind
\* with any route, every stage that stage_prerequisites returns for a stage of
\* the vocabulary is in required_stages and comes strictly before that stage in
\* the flow order; hence no stage is upstream of itself.
C28_PrerequisitesRequiredAndEarlier ==
    /\ \A stage \in PROGRESS_STAGES :
          \A s \in Range(stage_prerequisites(part, stage)) :
              /\ s \in part.required_stages
              /\ s \in PROGRESS_STAGES
              /\ FlowPosition(s) < FlowPosition(stage)
    /\ \A stage \in PROGRESS_STAGES :
          stage \notin Upstream(stage, Cardinality(PROGRESS_STAGES))

\* The validator has run for a part whose route has every stage: qc has four
\* prerequisites and machining is upstream of qc through the whole chain.
C28_Witness ==
    /\ last.op = "validate_stage_flow"
    /\ ~part.is_cooperation
    /\ PROGRESS_STAGES \subseteq part.required_stages
    /\ Len(stage_prerequisites(part, "qc")) = 4
    /\ "machining" \in Upstream("qc", Cardinality(PROGRESS_STAGES))

\* The first of the three quantity columns of a movement that is set, else 0.
FirstQuantity(m) ==
    LET set == SelectSeq(<<m.qty_received, m.qty_sent, m.quantity>>, LAMBDA q : q # Nil)
    IN IF set = <<>> THEN 0 ELSE Head(set)

\* The movements of the part that came back from a stage.
ReceivedFor(stage, ms) ==
    {m \in ms : m.stage_id = stage /\ m.status \in {"received", "completed"}}

\* C29 (totals of the finishing stages): for heat_treatment, galvanic and
\* grinding, compute_stage_totals gives good = the sum of
\* coalesce(qty_received, qty_sent, quantity, 0) over exactly the part's
\* movements linked to the stage in status received or completed, and scrap = 0;
\* a movement in another status, without a link, or linked to machining,
\* fitting or qc changes none of these totals.
C29_FinishingTotalsFromReceivedMovements ==
    /\ \A stage \in {"heat_treatment", "galvanic", "grinding"} :
          /\ totals_of(Db)[stage].good
                = Sum([m \in movements |-> FirstQuantity(m)], ReceivedFor(stage, movements))
          /\ totals_of(Db)[stage].scrap = 0
    /\ \A m \in movements :
          (\/ m.status \in {"pending", "sent", "in_transit", "returned", "cancelled"}
           \/ m.stage_id \in {NoStage, "machining", "fitting", "qc"})
            => \A stage \in {"heat_treatment", "galvanic", "grinding"} :
                  compute_stage_totals(part, stage_statuses, facts, movements \ {m})[stage]
                      = totals_of(Db)[stage]

\* The part was recomputed with two movements back from heat treatment, one of
\* them completed with only the legacy quantity set, next to the delivery.
C29_Witness ==
    /\ last.op = "recompute_part_state"
    /\ \E m \in movements :
          /\ m.status = "completed" /\ m.stage_id = "heat_treatment"
          /\ m.qty_received = Nil /\ m.qty_sent = Nil /\ m.quantity = MaxQty
          /\ Cardinality(ReceivedFor("heat_treatment", movements)) = 2
          /\ totals_of(Db)["heat_treatment"].good = 2 * MaxQty

\* The QC outcome recorded on the part: pending when none is.
QcOutcome(p) == IF p.cooperation_qc_status \in {"accepted", "rejected"}
                THEN p.cooperation_qc_status ELSE "pending"

\* The QC row is as the outcome and the QC facts of db call for.
QcRowRule(db, row) ==
    CASE QcOutcome(db.part) = "accepted" -> row.status = "done"
      [] QcOutcome(db.part) = "rejected" -> row.status = "in_progress"
      [] OTHER ->
           (\A f \in db.facts : f.stage # "qc") =>
               /\ row.status = "pending"
               /\ row.started_at = Nil /\ row.completed_at = Nil /\ row.operator_id = Nil

\* C30 (QC of a cooperation part): the QC totals of a cooperation part have
\* good = qty_plan when the outcome is accepted and good = 0 when it is
\* rejected, whatever QC facts exist, and are an explicit empty entry when the
\* outcome is pending and there is no QC fact; a recompute leaves the QC row
\* done when accepted, in_progress when rejected, and pending with started_at,
\* completed_at and operator_id cleared when pending without a QC fact.
C30_CooperationQcFromOutcome ==
    part.is_cooperation =>
        /\ QcOutcome(part) = "accepted" => totals_of(Db)["qc"].good = part.qty_plan
        /\ QcOutcome(part) = "rejected" => totals_of(Db)["qc"].good = 0
        /\ (QcOutcome(part) = "pending" /\ \A f \in facts : f.stage # "qc") =>
              /\ totals_of(Db)["qc"].present
              /\ totals_of(Db)["qc"].good = 0 /\ totals_of(Db)["qc"].scrap = 0
              /\ totals_of(Db)["qc"].facts_count = 0
        /\ ("qc" \in DOMAIN stage_statuses /\ stage_statuses["qc"].status # "skipped") =>
              /\ QcRowRule(Db, recomputed(Db, now).stage_statuses["qc"])
              /\ JustRecomputed => QcRowRule(Db, stage_statuses["qc"])

\* The part update just served recorded the outcome rejected on a cooperation
\* part that has a QC fact with good pieces: the QC totals have good = 0 and the
\* QC row is in progress.
C30_Witness ==
    /\ last = [op |-> "update_part", status |-> "", err |-> ""]
    /\ part.is_cooperation /\ part.cooperation_qc_status = "rejected"
    /\ \E f \in facts : f.stage = "qc" /\ f.qty_good > 0
    /\ totals_of(Db)["qc"].good = 0
    /\ stage_statuses["qc"].status = "in_progress"

\* The row of a production stage is as its totals call for: pending with the
\* three columns cleared when the stage has no event and nothing processed,
\* else started, and done exactly when good reaches the plan.
StageRowRule(p, row, stage_total) ==
    LET idle == stage_total.facts_count = 0 /\ stage_total.good + stage_total.scrap = 0 IN
    /\ idle <=> row.status = "pending"
    /\ idle => row.started_at = Nil /\ row.completed_at = Nil /\ row.operator_id = Nil
    /\ ~idle =>
          /\ row.started_at # Nil
          /\ row.status = "done" <=> stage_total.good >= p.qty_plan
          /\ row.status = "in_progress" <=> stage_total.good < p.qty_plan

\* The rows the rule is about: production stages, not skipped, not the QC row
\* of a cooperation part.
ProductionRows(db) ==
    {s \in DOMAIN db.stage_statuses \cap PROGRESS_STAGES :
        /\ db.stage_statuses[s].status # "skipped"
        /\ ~(s = "qc" /\ db.part.is_cooperation)}

\* C31 (stage status from totals): after recompute_part_state every production
\* stage that is not skipped, other than the QC of a cooperation part, is
\* pending with started_at, completed_at and operator_id cleared iff it has no
\* contributing event and no processed quantity; otherwise it has started_at
\* set and is done iff good >= qty_plan and in_progress otherwise.
C31_StageStatusFromTotals ==
    /\ \A s \in ProductionRows(Db) :
          StageRowRule(part, recomputed(Db, now).stage_statuses[s], totals_of(Db)[s])
    /\ JustRecomputed =>
          \A s \in ProductionRows(Db) : StageRowRule(part, stage_statuses[s], totals_of(Db)[s])

\* The delete just served removed the last fact of a stage: its row is pending
\* again with the columns cleared, next to a stage that is still in progress
\* or done.
C31_Witness ==
    /\ last = [op |-> "delete_stage_fact", status |-> "", err |-> ""]
    /\ \E s \in ProductionRows(Db) :
          /\ stage_statuses[s] = PendingRow
          /\ \A f \in facts : f.stage # s
    /\ \E s \in ProductionRows(Db) : stage_statuses[s].status \in {"in_progress", "done"}

\* Part.status is as qty_done, the events of the totals and the stage rows of
\* db call for.
OverallStatusRule(db) ==
    LET any_event == \E stage \in StageNames : totals_of(db)[stage].facts_count > 0
        any_started == \E s \in DOMAIN db.stage_statuses :
                          db.stage_statuses[s].status \in {"in_progress", "done"}
    IN db.part.status =
          CASE db.part.qty_done >= db.part.qty_plan -> "done"
            [] db.part.qty_done < db.part.qty_plan /\ (any_event \/ any_started) -> "in_progress"
            [] OTHER -> "not_started"

\* C32 (overall status): after recompute_part_state the part is done if
\* qty_done >= qty_plan, otherwise in_progress if some stage has a contributing
\* event or some stage row that is not skipped is in_progress or done, otherwise
\* not_started; a part left without any fact, delivery or QC outcome is
\* not_started.
C32_OverallStatusRule ==
    /\ OverallStatusRule(recomputed(Db, now))
    /\ JustRecomputed =>
          /\ OverallStatusRule(Db)
          /\ (facts = {} /\ movements = {} /\ qc_status_of(part) = "pending")
                => part.status = "not_started"

\* The delete just served removed the only fact of a part that had started:
\* the part is not_started again.
C32_Witness ==
    /\ last = [op |-> "delete_stage_fact", status |-> "", err |-> ""]
    /\ facts = {} /\ movements = {}
    /\ part.status = "not_started"
    /\ \A s \in DOMAIN stage_statuses : stage_statuses[s] = PendingRow

\* The facts of a stage that carry an operator.
SignedFacts(stage) == {f \in facts : f.stage = stage /\ f.operator_id # Nil}

\* C33 (latest operator): after every successful fact create, update or delete,
\* the operator of the row of a fact-recorded stage (machining, fitting, qc)
\* that has activity is the operator of the most recent fact of that stage that
\* carries an operator.
C33_LatestOperatorAttributed ==
    (last.op \in {"create_stage_fact", "update_stage_fact", "delete_stage_fact"}
       /\ last.err = "") =>
        \A stage \in DOMAIN stage_statuses \cap INTERNAL_FACT_STAGES :
            (stage_statuses[stage].status \in {"in_progress", "done"}
               /\ SignedFacts(stage) # {}) =>
                \E f \in SignedFacts(stage) :
                    /\ \A g \in SignedFacts(stage) : g.created_at <= f.created_at
                    /\ stage_statuses[stage].operator_id = f.operator_id

\* C34 (allocation within source): in every state, for every stage that has
\* stage-linked movements, the allocated quantity (the full quantity of the
\* movements in received or completed plus qty_sent of those in sent or
\* in_transit with sent_at) is at most the source quantity of the stage, also
\* after facts of the prerequisite stages were changed or deleted.
C34_AllocationWithinSource ==
    \A stage \in DOMAIN stage_statuses :
        (\E m \in movements : m.stage_id = stage) =>
            AllocatedByOthers(Db, stage, Nil) <= SourceQty(Db, stage)

\* C35 (concurrent activations): when requests for the same part run side by
\* side, none with allow_parallel, and each brings a different movement into
\* sent (two creates in status sent, or a create and an update from pending to
\* sent), the part never holds two active movements.
C35_NeverTwoActiveMovements ==
    Cardinality({m \in movements : m.status \in {"sent", "in_transit"} /\ m.sent_at # Nil}) <= 1

\* The finishing stages the claim names, as far as the part's route has them.
FinishingRequired == {"heat_treatment", "galvanic"} \cap part.required_stages

\* QC facts that report something and stay within the available quantity.
QcFactsWithinAvailable ==
    {d \in FactRequests : /\ d.stage = "qc"
                          /\ d.qty_good + d.qty_scrap > 0
                          /\ ~fact_exceeds_available(Db, d)}

\* C36 (QC after finishing): for an in-house part whose route has a finishing
\* stage (heat_treatment or galvanic), once fitting facts exist and every such
\* finishing stage has received movement quantity, a QC fact within the
\* available quantity is accepted.
C36_QcFactAcceptedAfterFinishing ==
    ( /\ ~part.is_cooperation
      /\ FinishingRequired # {}
      /\ {"fitting", "qc"} \subseteq part.required_stages
      /\ \E f \in facts : f.stage = "fitting" /\ f.qty_good > 0
      /\ \A s \in FinishingRequired : totals_of(Db)[s].good > 0 )
    => \A d \in QcFactsWithinAvailable : create_stage_fact(Db, d, now).err = ""

\* The progress stages of a part that have a row which is not skipped.
CountedStages(db) ==
    {s \in DOMAIN db.stage_statuses \cap PROGRESS_STAGES : db.stage_statuses[s].status # "skipped"}

\* The part is done exactly when it has a counted stage and all of them are done.
DoneWithAllStages(db) ==
    (db.part.status = "done")
        <=> /\ CountedStages(db) # {}
            /\ \A s \in CountedStages(db) : db.stage_statuses[s].status = "done"

\* C37 (done with all stages): after recompute_part_state, overallStatus is done
\* iff the part has at least one non-skipped progress stage and every
\* non-skipped progress stage (machining, fitting, heat_treatment, galvanic,
\* grinding, qc) has status done.
C37_DoneIffAllStagesDone ==
    /\ DoneWithAllStages(recomputed(Db, now))
    /\ (JustRecomputed \/ last.op = "recompute_part_state") => DoneWithAllStages(Db)

C37_Witness ==
    /\ JustRecomputed
    /\ part.status = "done"
    /\ Cardinality(CountedStages(Db)) >= 2
    /\ \A s \in CountedStages(Db) : stage_statuses[s].status = "done"

\* The timestamps a movement's status calls for, and at most one closing timestamp.
TimestampsCoherent(m) ==
    /\ m.status \in {"sent", "in_transit"} => m.sent_at # Nil
    /\ m.status = "received" => (m.sent_at # Nil /\ m.received_at # Nil)
    /\ m.status = "returned" => m.returned_at # Nil
    /\ m.status = "cancelled" => m.cancelled_at # Nil
    /\ Cardinality({c \in {"received_at", "returned_at", "cancelled_at"} : m[c] # Nil}) <= 1

\* C38 (coherent timestamps): every movement created and updated only through
\* the two movement handlers has, in every reachable state, sent_at set when
\* its status is sent or in_transit, sent_at and received_at set when received,
\* returned_at set when returned, cancelled_at set when cancelled, and at most
\* one of received_at, returned_at, cancelled_at set.
C38_TimestampsCoherent == \A m \in movements : TimestampsCoherent(m)

\* The progress report of the committed rows.
ProgressReport == calculate_part_progress(part, stage_statuses, totals_of(Db))

\* C39 (report agrees with the stored quantity): in every committed state the
\* ready quantity of the progress report equals the stored qty_done written by
\* recompute_part_state, and the reported bottleneck stage is a stage whose
\* good total attains that quantity.  Only states whose rows were all written
\* by the handlers are looked at, so no row is skipped.
C39_ReportMatchesStoredReadyQty ==
    (\A s \in DOMAIN stage_statuses : stage_statuses[s].status # "skipped") =>
        /\ ProgressReport.overall_qty_done = part.qty_done
        /\ ProgressReport.bottleneck_stage # NoStage =>
              totals_of(Db)[ProgressReport.bottleneck_stage].good
                  = ProgressReport.overall_qty_done

\* C40 (unsent movements and the journey): a movement whose sent_at was never
\* set, such as a draft cancelled while still pending, never is the movement
\* the journey report takes the part's current location or holder from.
C40_UnsentNeverGivesWhereabouts ==
    \A w \in current_whereabouts(part, movements) :
        \A m \in movements : w.movement = m.id => m.sent_at # Nil

====
